---- MODULE Spec2Model ----
(***************************************************************************)
(* The tiered memory manager of video-watcher (class MemoryManager in      *)
(* server/video-processor.mjs and server/memory-manager.mjs) and the       *)
(* handlers of server/index.mjs that drive it; the function-based memory   *)
(* manager of server/video-processor.mjs; the watcher handler and          *)
(* scanForMissedVideos of server/index.mjs with analyzeVideo.              *)
(*                                                                         *)
(* JSON documents are modelled structurally.  A string is its length plus  *)
(* a name that tells strings of equal length apart; an array is a sequence;*)
(* an object is a function from key names to values.  JSON.stringify is    *)
(* modelled by the length of the text it produces, which is all that the   *)
(* token estimator reads.                                                  *)
(***************************************************************************)
EXTENDS Integers, Sequences, FiniteSets, TLC

(***************************************************************************)
(* Bounds of the model.                                                    *)
(***************************************************************************)
NumProcs == 2
MaxIngests == 1
MaxWriteFailures == 2
MaxTextLen == 24
MaxEvents == 2
NumFiles == 2
MaxRetryCount == 2

Procs == 1..NumProcs

(***************************************************************************)
(* Program constants.                                                      *)
(***************************************************************************)
STM_TOKEN_LIMIT == 8000
LTM_TOKEN_LIMIT == 8000
WM_TOKEN_LIMIT == 8000
SLICE_TOKENS == 3000
WM_CORROBORATED_CAP == 10
WM_UNTESTED_CAP == 5
BASIC_TRIM_CAP == 5
STM_TRIM_THRESHOLD == 3000
STABLE_ATTEMPTS == 5

(***************************************************************************)
(* JSON values.                                                            *)
(***************************************************************************)
NoFields == [k \in {} |-> 0]

\* an array element: a string of n characters
Item(name, n) == [t |-> "str", n |-> n, s |-> name]

\* a string value
Str(name, n) == [t |-> "str", n |-> n, s |-> name, a |-> <<>>, f |-> NoFields]
\* an array of strings
Arr(items) == [t |-> "arr", n |-> 0, s |-> "", a |-> items, f |-> NoFields]
\* a number
Num(n) == [t |-> "num", n |-> n, s |-> "", a |-> <<>>, f |-> NoFields]
\* a nested object whose fields are strings or arrays
Sec(fields) == [t |-> "obj", n |-> 0, s |-> "", a |-> <<>>, f |-> fields]

\* a top-level document: an object, or the JSON value null
Obj(fields) == [t |-> "obj", f |-> fields]
JNull == [t |-> "null", f |-> NoFields]

Keys(doc) == DOMAIN doc.f

KeyLen(k) ==
  CASE k = "profile_summary" -> 15
    [] k = "skills_and_knowledge" -> 20
    [] k = "preferences_and_habits" -> 22
    [] k = "workflows" -> 9
    [] k = "challenges" -> 10
    [] k = "goals_and_motivations" -> 21
    [] k = "traits_and_attitudes" -> 20
    [] k = "confirmed_skills" -> 16
    [] k = "inferred_skills" -> 15
    [] k = "ui_preferences" -> 14
    [] k = "tool_preferences" -> 16
    [] k = "stated_goals" -> 12
    [] k = "recurring_frustrations" -> 22
    [] k = "common_tasks" -> 12
    [] k = "communication_style" -> 19
    [] k = "untested_hypotheses" -> 19
    [] k = "corroborated_hypotheses" -> 23
    [] k = "established_facts" -> 17
    [] k = "notes" -> 5
    [] OTHER -> 1

RECURSIVE SumSeq(_)
SumSeq(s) == IF s = <<>> THEN 0 ELSE Head(s) + SumSeq(Tail(s))

RECURSIVE SumOver(_, _)
SumOver(S, g) ==
  IF S = {} THEN 0
  ELSE LET x == CHOOSE y \in S : TRUE IN g[x] + SumOver(S \ {x}, g)

Commas(n) == IF n > 0 THEN n - 1 ELSE 0

\* length of JSON.stringify of an array of strings
ArrLen(items) ==
  2 + SumSeq([i \in 1..Len(items) |-> items[i].n + 2]) + Commas(Len(items))

\* length of JSON.stringify of a string, an array or a number
LeafLen(v) ==
  CASE v.t = "str" -> v.n + 2
    [] v.t = "arr" -> ArrLen(v.a)
    [] OTHER -> v.n

\* length of JSON.stringify of a value of a top-level document
ValLen(v) ==
  IF v.t = "obj"
  THEN 2 + SumOver(DOMAIN v.f, [k \in DOMAIN v.f |-> KeyLen(k) + 3 + LeafLen(v.f[k])])
         + Commas(Cardinality(DOMAIN v.f))
  ELSE LeafLen(v)

\* length of JSON.stringify(doc)
DocLen(doc) ==
  IF doc.t = "null" THEN 4
  ELSE 2 + SumOver(Keys(doc), [k \in Keys(doc) |-> KeyLen(k) + 3 + ValLen(doc.f[k])])
         + Commas(Cardinality(Keys(doc)))

\* Math.ceil(text.length / 4)
estimateTokensFloor(len) == len \div 4
estimateTokens(len) == (len + 3) \div 4

\* the function-based estimator on a text of that many words:
\* Math.ceil(words.length * 1.3)
estimateTokensOfWords(words) == (13 * words + 9) \div 10

(***************************************************************************)
(* Short-term memory entries.                                              *)
(***************************************************************************)
\* the data of an entry: the length of JSON.stringify(data) and a name
Data(name, n) == [s |-> name, n |-> n]

Entry(ts, type, data) == [timestamp |-> ts, type |-> type, data |-> data]

TypeLen(type) ==
  CASE type = "video_analysis_summary" -> 22
    [] type = "explicit_directive" -> 18
    [] type = "explicit_statement" -> 18
    [] type = "inferred_insight" -> 16
    [] OTHER -> 1

\* {"timestamp":"<24 characters>","type":"<type>","data":<data>}
EntryLen(e) == 58 + TypeLen(e.type) + e.data.n

\* length of JSON.stringify(this.shortTermMemory)
StmLen(stm) ==
  2 + SumSeq([i \in 1..Len(stm) |-> EntryLen(stm[i])]) + Commas(Len(stm))

StmTokens(stm) == estimateTokens(StmLen(stm))

(***************************************************************************)
(* Analysis results: the argument of processNewAnalysis.                   *)
(***************************************************************************)
NoText == [present |-> FALSE, s |-> "", n |-> 0]
Text(name, n) == [present |-> TRUE, s |-> name, n |-> n]
Truthy(text) == text.present /\ text.n > 0

Absent == [kind |-> "absent", items |-> <<>>]
NonArray == [kind |-> "nonarray", items |-> <<>>]
List(items) == [kind |-> "array", items |-> items]

Result(rcs, sum, dirs, stmts, ins) ==
  [relevantContextSummary |-> rcs, summary |-> sum, explicit_directives |-> dirs,
   explicit_statements |-> stmts, inferred_insights |-> ins]

\* { summary: relevantContextSummary || summary || "No summary available" }
SummaryData(R) ==
  IF Truthy(R.relevantContextSummary)
  THEN Data(R.relevantContextSummary.s, 14 + R.relevantContextSummary.n)
  ELSE IF Truthy(R.summary)
       THEN Data(R.summary.s, 14 + R.summary.n)
       ELSE Data("No summary available", 34)

\* field && Array.isArray(field): the items the loop runs over
ArrayItems(field) == IF field.kind = "array" THEN field.items ELSE <<>>

EntriesOf(ts, type, items) == [i \in 1..Len(items) |-> Entry(ts, type, items[i])]

\* the entries processNewAnalysis pushes, in the order it pushes them
BuiltEntriesInsightsFirst(ts, R) ==
  <<Entry(ts, "video_analysis_summary", SummaryData(R))>>
    \o EntriesOf(ts, "explicit_directive", ArrayItems(R.explicit_directives))
    \o EntriesOf(ts, "inferred_insight", ArrayItems(R.inferred_insights))
    \o EntriesOf(ts, "explicit_statement", ArrayItems(R.explicit_statements))
BuiltEntries(ts, R) ==
  <<Entry(ts, "video_analysis_summary", SummaryData(R))>>
    \o EntriesOf(ts, "explicit_directive", ArrayItems(R.explicit_directives))
    \o EntriesOf(ts, "explicit_statement", ArrayItems(R.explicit_statements))
    \o EntriesOf(ts, "inferred_insight", ArrayItems(R.inferred_insights))

(***************************************************************************)
(* STM -> LTM consolidation: the sort and the slice.                       *)
(***************************************************************************)
\* an insertion that puts e before the entries of its own timestamp
RECURSIVE InsertBeforeEqual(_, _)
InsertBeforeEqual(sorted, e) ==
  IF sorted = <<>> THEN <<e>>
  ELSE IF Head(sorted).timestamp < e.timestamp
       THEN <<Head(sorted)>> \o InsertBeforeEqual(Tail(sorted), e)
       ELSE <<e>> \o sorted

\* the place sort() gives e among entries already in order: after the entries
\* of its own timestamp (the sort is stable)
RECURSIVE InsertByTimestamp(_, _)
InsertByTimestamp(sorted, e) ==
  IF sorted = <<>> THEN <<e>>
  ELSE IF Head(sorted).timestamp <= e.timestamp
       THEN <<Head(sorted)>> \o InsertByTimestamp(Tail(sorted), e)
       ELSE <<e>> \o sorted

RECURSIVE SortByTimestamp(_)
SortByTimestamp(stm) ==
  IF stm = <<>> THEN <<>>
  ELSE \* the entries before the last are sorted once, then the last is inserted
       CHOOSE r \in {InsertByTimestamp(x, stm[Len(stm)]) :
                       x \in {SortByTimestamp(SubSeq(stm, 1, Len(stm) - 1))}} : TRUE

\* while (i < length && tokenCount < 3000) { push; tokenCount += estimate; i++ }
RECURSIVE SelectOldestBelow(_, _, _)
SelectOldestBelow(stm, i, tokenCount) ==
  IF i <= Len(stm) /\ tokenCount + estimateTokens(EntryLen(stm[i])) < SLICE_TOKENS
  THEN <<stm[i]>>
         \o SelectOldestBelow(stm, i + 1, tokenCount + estimateTokens(EntryLen(stm[i])))
  ELSE <<>>

RECURSIVE SelectOldest(_, _, _)
SelectOldest(stm, i, tokenCount) ==
  IF i <= Len(stm) /\ tokenCount < SLICE_TOKENS
  THEN <<stm[i]>> \o SelectOldest(stm, i + 1, tokenCount + estimateTokens(EntryLen(stm[i])))
  ELSE <<>>

\* checkSTMSize(): whether it calls consolidateToLTM()
checkSTMSizeAtLeast(stm) == StmTokens(stm) >= STM_TOKEN_LIMIT
checkSTMSize(stm) == StmTokens(stm) > STM_TOKEN_LIMIT

\* shortTermMemory.splice(0, n)
SpliceOne(stm, n) == SubSeq(stm, 2, Len(stm))
Splice(stm, n) == SubSeq(stm, n + 1, Len(stm))

(***************************************************************************)
(* LTM trimming fallbacks.                                                 *)
(***************************************************************************)
LtmSections ==
  {"profile_summary", "skills_and_knowledge", "preferences_and_habits", "workflows",
   "challenges", "goals_and_motivations", "traits_and_attitudes"}

\* JavaScript truthiness of a value: only the empty string (and 0) is falsy
ValTruthy(v) ==
  CASE v.t = "str" -> v.n > 0
    [] v.t = "num" -> v.n > 0
    [] OTHER -> TRUE

\* the two-part paths of priorityOrder, grouped by their first part
PrioritySections ==
  {"skills_and_knowledge", "preferences_and_habits", "goals_and_motivations", "challenges"}

PriorityFields(section) ==
  CASE section = "skills_and_knowledge" -> {"confirmed_skills"}
    [] section = "preferences_and_habits" -> {"ui_preferences", "tool_preferences"}
    [] section = "goals_and_motivations" -> {"stated_goals"}
    [] section = "challenges" -> {"recurring_frustrations"}
    [] OTHER -> {}

\* result[a] && result[a][b]
HasField(doc, a, b) ==
  /\ a \in Keys(doc)
  /\ doc.f[a].t = "obj"
  /\ b \in DOMAIN doc.f[a].f
  /\ ValTruthy(doc.f[a].f[b])

\* forceTrimByPriority(ltm, priorityOrder), for a document that is an object
forceTrimByPriority(ltm) ==
  LET top == IF "profile_summary" \in Keys(ltm) /\ ValTruthy(ltm.f["profile_summary"])
             THEN {"profile_summary"} ELSE {}
      kept(a) == {b \in PriorityFields(a) : HasField(ltm, a, b)}
  IN Obj([k \in top \cup PrioritySections |->
            IF k = "profile_summary" THEN ltm.f[k]
            ELSE Sec([b \in kept(k) |-> ltm.f[k].f[b]])])

\* value.slice(0, cap) of an array or of a string
SliceTo(v, cap) ==
  CASE v.t = "arr" -> Arr(SubSeq(v.a, 1, IF Len(v.a) < cap THEN Len(v.a) ELSE cap))
    [] v.t = "str" -> Str(v.s, IF v.n < cap THEN v.n ELSE cap)
    [] OTHER -> v

\* ltm[section]?.[field]?.slice(0, 5) || []
FirstAll(ltm, section, field) ==
  IF section \in Keys(ltm) /\ field \in DOMAIN ltm.f[section].f
  THEN ltm.f[section].f[field]
  ELSE Arr(<<>>)
FirstFive(ltm, section, field) ==
  IF /\ section \in Keys(ltm)
     /\ field \in DOMAIN ltm.f[section].f
     /\ ValTruthy(SliceTo(ltm.f[section].f[field], BASIC_TRIM_CAP))
  THEN SliceTo(ltm.f[section].f[field], BASIC_TRIM_CAP)
  ELSE Arr(<<>>)

\* basicTrimLTM(), reading this.longTermMemory (an object)
basicTrimLTM(ltm) ==
  Obj(("profile_summary" :>
         (IF "profile_summary" \in Keys(ltm) /\ ValTruthy(ltm.f["profile_summary"])
          THEN ltm.f["profile_summary"] ELSE Str("User profile", 12)))
      @@ ("skills_and_knowledge" :>
            Sec("confirmed_skills" :> FirstFive(ltm, "skills_and_knowledge", "confirmed_skills")))
      @@ ("preferences_and_habits" :>
            Sec("ui_preferences" :> FirstFive(ltm, "preferences_and_habits", "ui_preferences"))))

LtmTokens(ltm) == estimateTokens(DocLen(ltm))

\* checkLTMSize(): whether it calls trimLTM()
checkLTMSizeAtLeast(ltm) == LtmTokens(ltm) >= LTM_TOKEN_LIMIT
checkLTMSize(ltm) == LtmTokens(ltm) > LTM_TOKEN_LIMIT

(***************************************************************************)
(* WM trimming: the local truncation.                                      *)
(***************************************************************************)
WmKeys == {"untested_hypotheses", "corroborated_hypotheses", "established_facts"}

\* value.length > cap
LongerThan(v, cap) ==
  CASE v.t = "arr" -> Len(v.a) > cap
    [] v.t = "str" -> v.n > cap
    [] OTHER -> FALSE

WmCapSwapped(k) ==
  CASE k = "corroborated_hypotheses" -> WM_UNTESTED_CAP
    [] k = "untested_hypotheses" -> WM_CORROBORATED_CAP
    [] OTHER -> 0
WmCap(k) ==
  CASE k = "corroborated_hypotheses" -> WM_CORROBORATED_CAP
    [] k = "untested_hypotheses" -> WM_UNTESTED_CAP
    [] OTHER -> 0

\* const trimmed = { ...this.workingMemory } with the two lists cut
LocalTruncate(wm) ==
  Obj([k \in Keys(wm) |->
         IF /\ k \in {"corroborated_hypotheses", "untested_hypotheses"}
            /\ ValTruthy(wm.f[k])
            /\ LongerThan(wm.f[k], WmCap(k))
         THEN SliceTo(wm.f[k], WmCap(k))
         ELSE wm.f[k]])

WmTokens(wm) == estimateTokens(DocLen(wm))

EmptyWM == Obj([k \in WmKeys |-> Arr(<<>>)])
EmptyLTM == Obj(NoFields)

(***************************************************************************)
(* The inputs the model draws from: analysis results, summarizer           *)
(* responses and the files found on disk at start.                         *)
(***************************************************************************)
Short(name) == Item(name, 20)
Huge(name) == Item(name, 40000)

TinyData(name) == Data(name, 40)
MidData(name) == Data(name, 8000)
BigData(name) == Data(name, 20000)

AnalysisResults ==
  { \* summary only, every list absent
    Result(NoText, Text("test", 4), Absent, Absent, Absent),
    \* one item in every list
    Result(NoText, Text("full", 4), List(<<TinyData("d1")>>), List(<<TinyData("s1")>>),
           List(<<TinyData("i1")>>)),
    \* a list that is not an array, no summary at all, two insights
    Result(NoText, NoText, NonArray, List(<<>>), List(<<TinyData("i1"), TinyData("i2")>>)),
    \* one entry of 32000 characters with its brackets: 8000 tokens exactly
    Result(NoText, Text("edge", 31904), Absent, Absent, Absent),
    \* four entries of about 2000 tokens each
    Result(Text("rcs", 8000), Text("mid", 4), Absent, List(<<MidData("s1")>>),
           List(<<MidData("i1"), MidData("i2")>>)),
    \* three entries of about 5000 tokens each
    Result(NoText, Text("big", 20000), List(<<BigData("d1")>>), NonArray,
           List(<<BigData("i1")>>)) }

LtmSmall ==
  Obj(("profile_summary" :> Str("profile", 30))
      @@ ("skills_and_knowledge" :>
            Sec(("confirmed_skills" :>
                   Arr(<<Short("k1"), Short("k2"), Short("k3"), Short("k4"), Short("k5"),
                         Short("k6")>>))
                @@ ("inferred_skills" :> Arr(<<Short("n1")>>))))
      @@ ("preferences_and_habits" :>
            Sec(("ui_preferences" :> Arr(<<Short("u1")>>))
                @@ ("tool_preferences" :> Arr(<<Short("t1")>>))))
      @@ ("workflows" :> Sec("common_tasks" :> Arr(<<Short("w1")>>)))
      @@ ("challenges" :> Sec("recurring_frustrations" :> Arr(<<Short("c1")>>)))
      @@ ("goals_and_motivations" :> Sec("stated_goals" :> Arr(<<Short("g1")>>)))
      @@ ("traits_and_attitudes" :> Sec("communication_style" :> Arr(<<Short("a1")>>))))

\* over budget because of a field outside the priority list
LtmBig ==
  Obj([LtmSmall.f EXCEPT !["workflows"] = Sec("common_tasks" :> Arr(<<Huge("w1")>>))])

\* over budget because of a field of the priority list
LtmBigCore ==
  Obj([LtmSmall.f EXCEPT !["skills_and_knowledge"] =
         Sec("confirmed_skills" :> Arr(<<Huge("k1"), Short("k2")>>))])

\* parseable, within budget, but not the seven-section document
LtmPartial ==
  Obj(("profile_summary" :> Str("partial", 30))
      @@ ("skills_and_knowledge" :> Sec("confirmed_skills" :> Arr(<<Short("k1")>>))))

Throw == [kind |-> "throw", doc |-> JNull]
BadText == [kind |-> "text", doc |-> JNull]
Json(doc) == [kind |-> "json", doc |-> doc]

\* what generateContent can do in createLTMSummary
MergeResponses == {Throw, BadText, Json(LtmSmall), Json(LtmBig), Json(LtmBigCore), Json(LtmPartial)}

\* what generateContent can do in trimLTM
LtmTrimResponses == {Throw, BadText, Json(LtmSmall), Json(LtmBig), Json(LtmBigCore)}

WmSmall ==
  Obj(("untested_hypotheses" :> Arr(<<Short("u1")>>))
      @@ ("corroborated_hypotheses" :> Arr(<<Short("c1")>>))
      @@ ("established_facts" :> Arr(<<Short("f1")>>)))

\* over budget, and within budget once the lists are cut to 10 and 5
WmLong ==
  Obj(("untested_hypotheses" :>
         Arr(<<Short("u1"), Short("u2"), Short("u3"), Short("u4"), Short("u5"), Huge("u6")>>))
      @@ ("corroborated_hypotheses" :>
            Arr(<<Short("c1"), Short("c2"), Short("c3"), Short("c4"), Short("c5"), Short("c6"),
                  Short("c7"), Short("c8"), Short("c9"), Short("c10"), Short("c11")>>))
      @@ ("established_facts" :> Arr(<<Short("f1")>>)))

\* over budget whatever is cut from the two hypothesis lists
WmHuge ==
  Obj(("untested_hypotheses" :>
         Arr(<<Short("u1"), Short("u2"), Short("u3"), Short("u4"), Short("u5"), Short("u6")>>))
      @@ ("corroborated_hypotheses" :> Arr(<<Short("c1")>>))
      @@ ("established_facts" :> Arr(<<Huge("f1")>>)))

\* {"untested_hypotheses": "not an array", ...}
WmBadShape ==
  Obj(("untested_hypotheses" :> Str("not an array", 12))
      @@ ("corroborated_hypotheses" :> Arr(<<>>))
      @@ ("established_facts" :> Arr(<<>>)))

WmMissingKey ==
  Obj(("untested_hypotheses" :> Arr(<<Short("u1")>>))
      @@ ("corroborated_hypotheses" :> Arr(<<>>)))

WmExtraKey == Obj([k \in WmKeys |-> Arr(<<>>)] @@ ("notes" :> Str("extra", 5)))

\* what generateContent can do in updateWorkingMemory
WmResponses ==
  {Throw, BadText, Json(WmSmall), Json(WmLong), Json(WmHuge), Json(WmBadShape),
   Json(WmMissingKey), Json(WmExtraKey)}

\* what generateContent can do in trimWM
WmTrimResponses == {Throw, BadText, Json(WmSmall), Json(WmBadShape)}

\* an STM written by an earlier run: three entries of about 2000 tokens each
OldStm ==
  <<Entry(0, "video_analysis_summary", MidData("old")),
    Entry(0, "explicit_statement", MidData("o1")),
    Entry(0, "inferred_insight", MidData("o2"))>>

NoSnapshot == [present |-> FALSE, stm |-> <<>>, ltm |-> JNull, wm |-> JNull]
Snapshot(stm, ltm, wm) == [present |-> TRUE, stm |-> stm, ltm |-> ltm, wm |-> wm]
NoStmFile == [present |-> FALSE, stm |-> <<>>]
StmFile(stm) == [present |-> TRUE, stm |-> stm]
NoDocFile == [present |-> FALSE, doc |-> JNull]
DocFile(doc) == [present |-> TRUE, doc |-> doc]

\* the memory directory at process start: empty, left by an earlier run of
\* this manager, or holding only the per-tier files
InitialDisks ==
  { [state |-> NoSnapshot, stm |-> NoStmFile, ltm |-> NoDocFile, wm |-> NoDocFile],
    [state |-> Snapshot(OldStm, LtmSmall, WmSmall), stm |-> StmFile(OldStm),
     ltm |-> DocFile(LtmSmall), wm |-> DocFile(WmSmall)],
    [state |-> NoSnapshot, stm |-> StmFile(OldStm), ltm |-> DocFile(LtmSmall),
     wm |-> NoDocFile] }

(***************************************************************************)
(* State.                                                                  *)
(***************************************************************************)
VARIABLES
  shortTermMemory,  \* this.shortTermMemory
  longTermMemory,   \* this.longTermMemory
  workingMemory,    \* this.workingMemory
  initialized,      \* this.initialized
  clock,            \* what new Date() returns
  disk,             \* memory-state.json, stm.json, ltm.json, wm.json
  pc,               \* the await at which each handler is suspended
  op,               \* what each handler is running
  loc,              \* the local variables of each handler
  obs,              \* what each handler has done so far in its current call
  ingests,          \* calls of processNewAnalysis so far
  failures,         \* failed writes so far
  \* the function-based memory manager
  isInitialized,    \* let isInitialized
  eventStm,         \* let stm
  ltmContent,       \* let ltmContent: the summaries appended to ltmContent.summary
  eventWm,          \* let wm
  background,       \* the checkAndTrimStm and updateWorkingMemory calls in flight
  \* index.mjs
  processingFiles,  \* const processingFiles
  processedVideos,  \* const processedVideos
  dataset,          \* the analysis files of the dataset folder
  handlers,         \* the watcher handlers and scans in flight
  ingested          \* calls of processNewAnalysis per recording

memVars ==
  <<shortTermMemory, longTermMemory, workingMemory, initialized, clock, disk, pc, op, loc,
    obs, ingests, failures>>

fnVars == <<isInitialized, eventStm, ltmContent, eventWm, background>>

indexVars == <<processingFiles, processedVideos, dataset, handlers, ingested>>

vars == <<memVars, fnVars, indexVars>>

\* the function-based manager when the module is loaded; background[0] is the
\* updateWorkingMemory() of initializeMemoryManager, background[e] the calls
\* that the e-th addEventToStm starts
FnConstructed ==
  /\ isInitialized = FALSE
  /\ eventStm = <<>>
  /\ ltmContent = <<>>
  /\ eventWm = 0
  /\ background = [e \in 0..MaxEvents |->
                     [trim |-> "none", entriesToSummarize |-> <<>>, entriesToKeep |-> <<>>,
                      wm |-> "none"]]

\* index.mjs when the module is loaded: no handler is running.  The
\* recordings of the watch folder are 1..NumFiles, in readdir order;
\* dataset[f] tells whether the dataset folder holds an analysis file for f
\* and whether it carries the 'File never reached ACTIVE state' error.
IndexConstructed ==
  /\ processingFiles = {}
  /\ processedVideos = {}
  /\ dataset = [f \in 1..NumFiles |-> "none"]
  /\ handlers = [h \in Procs |->
                   [kind |-> "none", pc |-> "idle", file |-> 0, jsonFiles |-> <<>>,
                    videoFiles |-> <<>>, attempts |-> 0, retryCount |-> 0,
                    progress |-> "none"]]
  /\ ingested = [f \in 1..NumFiles |-> 0]

NoResult == Result(NoText, NoText, Absent, Absent, Absent)

NoLoc ==
  [analysisResult |-> NoResult, oldestEntries |-> <<>>, trimmed |-> JNull,
   wStm |-> <<>>, wDoc |-> JNull, wState |-> [stm |-> <<>>, ltm |-> JNull, wm |-> JNull],
   query |-> NoText, memoryState |-> [stm |-> <<>>, ltm |-> JNull, wm |-> JNull]]

NoObs ==
  [appended |-> <<>>, before |-> <<>>, stmAtSelect |-> <<>>, ltmAtSelect |-> JNull,
   merge |-> "none", mergeDoc |-> JNull, mergeCalls |-> 0, trim |-> "none", trimDoc |-> JNull, trimCalls |-> 0,
   wmBefore |-> JNull, wmResp |-> "none", wmDoc |-> JNull, wmCalls |-> 0, wmTrim |-> "none",
   answer |-> "none", quiet |-> FALSE, ingestsAt |-> 0,
   estimator |-> "none", size |-> 0, tokens |-> 0]

CompleteStateNoWM == [stm |-> shortTermMemory, ltm |-> longTermMemory, wm |-> EmptyWM]
CompleteState == [stm |-> shortTermMemory, ltm |-> longTermMemory, wm |-> workingMemory]

InitWith(Disks) ==
  /\ shortTermMemory = <<>>
  /\ longTermMemory = EmptyLTM
  /\ workingMemory = EmptyWM
  /\ initialized = FALSE
  /\ clock = 0
  /\ disk \in Disks
  \* the module calls setupWatcher() when it is loaded; it is suspended in initialize()
  /\ FnConstructed
  /\ IndexConstructed
  /\ pc = [p \in Procs |-> IF p = 1 THEN "init_state" ELSE "idle"]
  /\ op = [p \in Procs |-> IF p = 1 THEN "setup" ELSE "none"]
  /\ loc = [p \in Procs |-> NoLoc]
  /\ obs = [p \in Procs |-> NoObs]
  /\ ingests = 0
  /\ failures = 0

Init == InitWith(InitialDisks)

\* fs.writeFile resolves or rejects; a rejection is caught and logged
WriteMay(ok) ==
  /\ ok \/ failures < MaxWriteFailures
  /\ failures' = IF ok THEN failures ELSE failures + 1

(***************************************************************************)
(* initialize() and the first, synchronous part of processNewAnalysis.     *)
(***************************************************************************)
\* processNewAnalysis after its initialized test: push the entries, then call
\* persistSTM(), which serializes the STM and suspends in fs.writeFile.
\* new Date() has advanced by tick since it was last read.
Unshift(stm, entries) == entries \o stm
Push(stm, entries) == stm \o entries

AppendToSTM(p, base, R, Ticks) ==
  \E tick \in Ticks :
  LET now == clock + tick
      stm1 == Push(base, BuiltEntries(now, R)) IN
  /\ clock' = now
  /\ shortTermMemory' = stm1
  /\ pc' = [pc EXCEPT ![p] = "persist_stm"]
  /\ op' = [op EXCEPT ![p] = "ingest"]
  /\ loc' = [loc EXCEPT ![p] = [NoLoc EXCEPT !.analysisResult = R, !.wStm = stm1]]
  /\ obs' = [obs EXCEPT ![p] = [NoObs EXCEPT !.appended = stm1, !.before = base]]

\* a handler calls processNewAnalysis(R); serial says that the caller waits
\* until no other handler is running
StartIngest(p, R, serial, Ticks) ==
  /\ pc[p] = "idle"
  /\ UNCHANGED <<fnVars, indexVars>>
  /\ ingests < (IF serial THEN MaxIngests ELSE NumProcs)
  /\ serial => \A q \in Procs : pc[q] = "idle"
  /\ ingests' = ingests + 1
  /\ IF initialized
     THEN AppendToSTM(p, shortTermMemory, R, Ticks)
     ELSE /\ pc' = [pc EXCEPT ![p] = "init_state"]
          /\ op' = [op EXCEPT ![p] = "ingest"]
          /\ loc' = [loc EXCEPT ![p] = [NoLoc EXCEPT !.analysisResult = R]]
          /\ obs' = [obs EXCEPT ![p] = NoObs]
          /\ UNCHANGED <<shortTermMemory, clock>>
  /\ UNCHANGED <<longTermMemory, workingMemory, initialized, disk, failures>>

\* shortTermMemory.slice(-10)
LastTen(stm) == SubSeq(stm, IF Len(stm) > 10 THEN Len(stm) - 9 ELSE 1, Len(stm))

\* initialize() has set this.initialized; its caller goes on
AfterInitialize(p, base, Ticks) ==
  IF op[p] = "ingest"
  THEN AppendToSTM(p, base, loc[p].analysisResult, Ticks)
  ELSE IF op[p] = "query"
  THEN \* conversationalMemoryQuery suspends in generateContent
       /\ shortTermMemory' = base
       /\ clock' = clock
       /\ pc' = [pc EXCEPT ![p] = "query"]
       /\ loc' = [loc EXCEPT ![p].memoryState =
                    [stm |-> LastTen(base), ltm |-> longTermMemory', wm |-> workingMemory']]
       /\ UNCHANGED <<op, obs>>
  ELSE /\ shortTermMemory' = base
       /\ clock' = clock
       /\ pc' = [pc EXCEPT ![p] = "idle"]
       /\ op' = [op EXCEPT ![p] = "none"]
       /\ loc' = [loc EXCEPT ![p] = NoLoc]
       /\ obs' = [obs EXCEPT ![p] = NoObs]

\* savedState.x || default
OrDefault(doc, default) == IF doc.t = "null" THEN default ELSE doc

\* readFile(memory-state.json) returns or fails
InitReadStateNoSnapshot(p, Ticks) ==
  /\ pc[p] = "init_state"
  /\ UNCHANGED <<fnVars, indexVars>>
  /\ pc' = [pc EXCEPT ![p] = "init_ltm"]
  /\ UNCHANGED <<shortTermMemory, longTermMemory, workingMemory, initialized, op, loc, obs,
                 clock, disk, ingests, failures>>
InitReadState(p, Ticks) ==
  /\ pc[p] = "init_state"
  /\ UNCHANGED <<fnVars, indexVars>>
  /\ IF disk.state.present
     THEN /\ longTermMemory' = OrDefault(disk.state.ltm, EmptyLTM)
          /\ workingMemory' = OrDefault(disk.state.wm, EmptyWM)
          /\ initialized' = TRUE
          /\ AfterInitialize(p, disk.state.stm, Ticks)
     ELSE /\ pc' = [pc EXCEPT ![p] = "init_ltm"]
          /\ UNCHANGED <<shortTermMemory, longTermMemory, workingMemory, initialized, op, loc,
                         obs, clock>>
  /\ UNCHANGED <<disk, ingests, failures>>

\* readFile(ltm.json) returns or fails
InitReadLTM(p) ==
  /\ pc[p] = "init_ltm"
  /\ UNCHANGED <<fnVars, indexVars>>
  /\ longTermMemory' = IF disk.ltm.present THEN disk.ltm.doc ELSE EmptyLTM
  /\ pc' = [pc EXCEPT ![p] = "init_wm"]
  /\ UNCHANGED <<shortTermMemory, workingMemory, initialized, clock, disk, op, loc, obs,
                 ingests, failures>>

\* readFile(wm.json) returns or fails
InitReadWM(p) ==
  /\ pc[p] = "init_wm"
  /\ UNCHANGED <<fnVars, indexVars>>
  /\ workingMemory' = IF disk.wm.present THEN disk.wm.doc ELSE workingMemory
  /\ pc' = [pc EXCEPT ![p] = "init_stm"]
  /\ UNCHANGED <<shortTermMemory, longTermMemory, initialized, clock, disk, op, loc, obs,
                 ingests, failures>>

\* readFile(stm.json) returns or fails; then persistCompleteState() is called
InitReadSTM(p) ==
  /\ pc[p] = "init_stm"
  /\ UNCHANGED <<fnVars, indexVars>>
  /\ shortTermMemory' = IF disk.stm.present THEN disk.stm.stm ELSE shortTermMemory
  /\ loc' = [loc EXCEPT ![p].wState =
               [stm |-> shortTermMemory', ltm |-> longTermMemory, wm |-> workingMemory]]
  /\ pc' = [pc EXCEPT ![p] = "init_persist"]
  /\ UNCHANGED <<longTermMemory, workingMemory, initialized, clock, disk, op, obs, ingests,
                 failures>>

\* the snapshot write of initialize() ends
InitPersist(p, ok, Ticks) ==
  /\ pc[p] = "init_persist"
  /\ UNCHANGED <<fnVars, indexVars>>
  /\ WriteMay(ok)
  /\ disk' = IF ok
             THEN [disk EXCEPT !.state = Snapshot(loc[p].wState.stm, loc[p].wState.ltm,
                                                  loc[p].wState.wm)]
             ELSE disk
  /\ initialized' = TRUE
  /\ UNCHANGED <<longTermMemory, workingMemory, ingests>>
  /\ AfterInitialize(p, shortTermMemory, Ticks)

(***************************************************************************)
(* The rest of processNewAnalysis: one action per await that ends.         *)
(***************************************************************************)
\* updateWorkingMemory() up to its call of generateContent; l and o are the
\* handler's locals and record at that point
StartUpdateWMAlways(p, stm, l, o) ==
  /\ pc' = [pc EXCEPT ![p] = "update_wm"]
  /\ loc' = [loc EXCEPT ![p] = l]
  /\ obs' = [obs EXCEPT ![p] = [o EXCEPT !.wmBefore = workingMemory, !.wmCalls = @ + 1]]
StartUpdateWM(p, stm, l, o) ==
  IF Len(stm) = 0
  THEN /\ pc' = [pc EXCEPT ![p] = "done"]
       /\ loc' = [loc EXCEPT ![p] = l]
       /\ obs' = [obs EXCEPT ![p] = [o EXCEPT !.wmBefore = workingMemory]]
  ELSE /\ pc' = [pc EXCEPT ![p] = "update_wm"]
       /\ loc' = [loc EXCEPT ![p] = l]
       /\ obs' = [obs EXCEPT ![p] =
                    [o EXCEPT !.wmBefore = workingMemory, !.wmCalls = @ + 1]]

\* the stm.json write after the append ends; persistCompleteState() is called
PersistSTMThrows(p, ok) ==
  /\ pc[p] = "persist_stm"
  /\ UNCHANGED <<fnVars, indexVars>>
  /\ WriteMay(ok)
  /\ disk' = IF ok THEN [disk EXCEPT !.stm = StmFile(loc[p].wStm)] ELSE disk
  /\ loc' = [loc EXCEPT ![p].wStm = <<>>, ![p].wState = CompleteState]
  /\ pc' = [pc EXCEPT ![p] = IF ok THEN "persist_state" ELSE "rejected"]
  /\ UNCHANGED <<shortTermMemory, longTermMemory, workingMemory, initialized, clock, op, obs,
                 ingests>>
PersistSTM(p, ok) ==
  /\ pc[p] = "persist_stm"
  /\ UNCHANGED <<fnVars, indexVars>>
  /\ WriteMay(ok)
  /\ disk' = IF ok THEN [disk EXCEPT !.stm = StmFile(loc[p].wStm)] ELSE disk
  /\ loc' = [loc EXCEPT ![p].wStm = <<>>, ![p].wState = CompleteState]
  /\ pc' = [pc EXCEPT ![p] = "persist_state"]
  /\ UNCHANGED <<shortTermMemory, longTermMemory, workingMemory, initialized, clock, op, obs,
                 ingests>>

\* the snapshot write after the append ends; checkSTMSize() runs, and either
\* consolidateToLTM() suspends in createLTMSummary or updateWorkingMemory() starts
PersistState(p, ok) ==
  /\ pc[p] = "persist_state"
  /\ UNCHANGED <<fnVars, indexVars>>
  /\ WriteMay(ok)
  /\ disk' = IF ok
             THEN [disk EXCEPT !.state = Snapshot(loc[p].wState.stm, loc[p].wState.ltm,
                                                  loc[p].wState.wm)]
             ELSE disk
  /\ LET l == [loc[p] EXCEPT !.wState = NoLoc.wState]
         sorted == SortByTimestamp(shortTermMemory)
         oldest == SelectOldest(sorted, 1, 0)
     IN IF checkSTMSize(shortTermMemory)
        THEN /\ shortTermMemory' = sorted
             /\ IF Len(oldest) = 0
                THEN StartUpdateWM(p, sorted, l, obs[p])
                ELSE /\ pc' = [pc EXCEPT ![p] = "merge"]
                     /\ loc' = [loc EXCEPT ![p] = [l EXCEPT !.oldestEntries = oldest]]
                     /\ obs' = [obs EXCEPT ![p].stmAtSelect = sorted,
                                           ![p].ltmAtSelect = longTermMemory,
                                           ![p].mergeCalls = @ + 1]
        ELSE /\ UNCHANGED shortTermMemory
             /\ StartUpdateWM(p, shortTermMemory, l, obs[p])
  /\ UNCHANGED <<longTermMemory, workingMemory, initialized, clock, op, ingests>>

\* generateContent of createLTMSummary ends with r; the LTM is replaced and
\* checkLTMSize() either suspends in trimLTM or persistLTM() is called
MergeReturn(p, r) ==
  /\ pc[p] = "merge"
  /\ UNCHANGED <<fnVars, indexVars>>
  /\ LET updatedLTM == IF r.kind = "json" THEN r.doc ELSE longTermMemory IN
     /\ longTermMemory' = updatedLTM
     /\ IF checkLTMSize(updatedLTM)
        THEN /\ pc' = [pc EXCEPT ![p] = "trim_ltm"]
             /\ obs' = [obs EXCEPT ![p].merge = r.kind, ![p].mergeDoc = r.doc,
                                   ![p].trimCalls = @ + 1]
             /\ UNCHANGED loc
        ELSE /\ pc' = [pc EXCEPT ![p] = "persist_ltm"]
             /\ obs' = [obs EXCEPT ![p].merge = r.kind, ![p].mergeDoc = r.doc]
             /\ loc' = [loc EXCEPT ![p].wDoc = updatedLTM]
  /\ UNCHANGED <<shortTermMemory, workingMemory, initialized, clock, disk, op, ingests,
                 failures>>

\* the result of trimLTM when generateContent ends with r
TrimmedLTM(ltm, r) ==
  IF r.kind = "json"
  THEN IF LtmTokens(r.doc) <= LTM_TOKEN_LIMIT THEN r.doc ELSE forceTrimByPriority(r.doc)
  ELSE IF ltm.t = "obj" THEN basicTrimLTM(ltm) ELSE ltm

\* persistLTM() called with the merge result, the trim result assigned later
LtmTrimReturnAfterPersist(p, r) ==
  /\ pc[p] = "trim_ltm"
  /\ UNCHANGED <<fnVars, indexVars>>
  /\ longTermMemory' = TrimmedLTM(longTermMemory, r)
  /\ pc' = [pc EXCEPT ![p] = "persist_ltm"]
  /\ loc' = [loc EXCEPT ![p].wDoc = longTermMemory]
  /\ obs' = [obs EXCEPT ![p].trim = r.kind, ![p].trimDoc = r.doc]
  /\ UNCHANGED <<shortTermMemory, workingMemory, initialized, clock, disk, op, ingests,
                 failures>>

\* generateContent of trimLTM ends with r; persistLTM() is called
LtmTrimReturn(p, r) ==
  /\ pc[p] = "trim_ltm"
  /\ UNCHANGED <<fnVars, indexVars>>
  /\ longTermMemory' = TrimmedLTM(longTermMemory, r)
  /\ pc' = [pc EXCEPT ![p] = "persist_ltm"]
  /\ loc' = [loc EXCEPT ![p].wDoc = longTermMemory']
  /\ obs' = [obs EXCEPT ![p].trim = r.kind, ![p].trimDoc = r.doc]
  /\ UNCHANGED <<shortTermMemory, workingMemory, initialized, clock, disk, op, ingests,
                 failures>>

\* the ltm.json write ends; the slice is removed and persistSTM() is called
PersistLTM(p, ok) ==
  /\ pc[p] = "persist_ltm"
  /\ UNCHANGED <<fnVars, indexVars>>
  /\ WriteMay(ok)
  /\ disk' = IF ok THEN [disk EXCEPT !.ltm = DocFile(loc[p].wDoc)] ELSE disk
  /\ shortTermMemory' = Splice(shortTermMemory, Len(loc[p].oldestEntries))
  /\ loc' = [loc EXCEPT ![p].wDoc = JNull, ![p].wStm = shortTermMemory']
  /\ pc' = [pc EXCEPT ![p] = "persist_stm2"]
  /\ UNCHANGED <<longTermMemory, workingMemory, initialized, clock, op, obs, ingests>>

\* the stm.json write of consolidateToLTM ends; persistCompleteState() is called
PersistSTM2(p, ok) ==
  /\ pc[p] = "persist_stm2"
  /\ UNCHANGED <<fnVars, indexVars>>
  /\ WriteMay(ok)
  /\ disk' = IF ok THEN [disk EXCEPT !.stm = StmFile(loc[p].wStm)] ELSE disk
  /\ loc' = [loc EXCEPT ![p].wStm = <<>>, ![p].wState = CompleteState]
  /\ pc' = [pc EXCEPT ![p] = "persist_state2"]
  /\ UNCHANGED <<shortTermMemory, longTermMemory, workingMemory, initialized, clock, op, obs,
                 ingests>>

\* the snapshot write of consolidateToLTM ends; updateWorkingMemory() starts
PersistState2(p, ok) ==
  /\ pc[p] = "persist_state2"
  /\ UNCHANGED <<fnVars, indexVars>>
  /\ WriteMay(ok)
  /\ disk' = IF ok
             THEN [disk EXCEPT !.state = Snapshot(loc[p].wState.stm, loc[p].wState.ltm,
                                                  loc[p].wState.wm)]
             ELSE disk
  /\ StartUpdateWM(p, shortTermMemory, [loc[p] EXCEPT !.wState = NoLoc.wState], obs[p])
  /\ UNCHANGED <<shortTermMemory, longTermMemory, workingMemory, initialized, clock, op,
                 ingests>>

\* this.workingMemory after the try of updateWorkingMemory: the parsed
\* response, or what it was when the call or the parse threw
ParsedOrReset(wm, r) == IF r.kind = "json" THEN r.doc ELSE EmptyWM
ParsedOrPrior(wm, r) == IF r.kind = "json" THEN r.doc ELSE wm

\* generateContent of updateWorkingMemory ends with r
WmReturn(p, r) ==
  /\ pc[p] = "update_wm"
  /\ UNCHANGED <<fnVars, indexVars>>
  /\ IF r.kind = "json"
     THEN LET trimmed == LocalTruncate(r.doc) IN
          IF WmTokens(r.doc) > WM_TOKEN_LIMIT /\ WmTokens(trimmed) > WM_TOKEN_LIMIT
          THEN \* trimWM suspends in generateContent
               /\ workingMemory' = r.doc
               /\ pc' = [pc EXCEPT ![p] = "trim_wm"]
               /\ loc' = [loc EXCEPT ![p].trimmed = trimmed]
          ELSE \* persistWM() is called
               /\ workingMemory' =
                    IF WmTokens(r.doc) > WM_TOKEN_LIMIT THEN trimmed ELSE r.doc
               /\ pc' = [pc EXCEPT ![p] = "persist_wm"]
               /\ loc' = [loc EXCEPT ![p].wDoc = workingMemory']
     ELSE /\ pc' = [pc EXCEPT ![p] = "done"]
          /\ workingMemory' = ParsedOrPrior(workingMemory, r)
          /\ UNCHANGED loc
  /\ obs' = [obs EXCEPT ![p].wmResp = r.kind, ![p].wmDoc = r.doc]
  /\ UNCHANGED <<shortTermMemory, longTermMemory, initialized, clock, disk, op, ingests,
                 failures>>

\* the result of trimWM when its generateContent ends with r
TrimmedWM(wm, trimmed, r) ==
  CASE r.kind = "json" -> r.doc
    [] r.kind = "text" -> trimmed
    [] OTHER -> wm

\* generateContent of trimWM ends with r; persistWM() is called
WmTrimReturnTrimsLTM(p, r) ==
  /\ pc[p] = "trim_wm"
  /\ UNCHANGED <<fnVars, indexVars>>
  /\ workingMemory' = TrimmedWM(workingMemory, loc[p].trimmed, r)
  /\ longTermMemory' = IF r.kind = "json" THEN longTermMemory ELSE basicTrimLTM(longTermMemory)
  /\ pc' = [pc EXCEPT ![p] = "persist_wm"]
  /\ loc' = [loc EXCEPT ![p].trimmed = JNull, ![p].wDoc = workingMemory']
  /\ obs' = [obs EXCEPT ![p].wmTrim = r.kind]
  /\ UNCHANGED <<shortTermMemory, initialized, clock, disk, op, ingests, failures>>
WmTrimReturn(p, r) ==
  /\ pc[p] = "trim_wm"
  /\ UNCHANGED <<fnVars, indexVars>>
  /\ workingMemory' = TrimmedWM(workingMemory, loc[p].trimmed, r)
  /\ pc' = [pc EXCEPT ![p] = "persist_wm"]
  /\ loc' = [loc EXCEPT ![p].trimmed = JNull, ![p].wDoc = workingMemory']
  /\ obs' = [obs EXCEPT ![p].wmTrim = r.kind]
  /\ UNCHANGED <<shortTermMemory, longTermMemory, initialized, clock, disk, op, ingests,
                 failures>>

\* the wm.json write ends; persistCompleteState() is called
PersistWMRollback(p, ok) ==
  /\ pc[p] = "persist_wm"
  /\ UNCHANGED <<fnVars, indexVars>>
  /\ WriteMay(ok)
  /\ disk' = IF ok THEN [disk EXCEPT !.wm = DocFile(loc[p].wDoc)] ELSE disk
  /\ workingMemory' = IF ok THEN workingMemory ELSE obs[p].wmBefore
  /\ loc' = [loc EXCEPT ![p].wDoc = JNull,
                        ![p].wState = [CompleteState EXCEPT !.wm = workingMemory']]
  /\ pc' = [pc EXCEPT ![p] = "persist_state3"]
  /\ UNCHANGED <<shortTermMemory, longTermMemory, initialized, clock, op, obs, ingests>>
PersistWM(p, ok) ==
  /\ pc[p] = "persist_wm"
  /\ UNCHANGED <<fnVars, indexVars>>
  /\ WriteMay(ok)
  /\ disk' = IF ok THEN [disk EXCEPT !.wm = DocFile(loc[p].wDoc)] ELSE disk
  /\ loc' = [loc EXCEPT ![p].wDoc = JNull, ![p].wState = CompleteState]
  /\ pc' = [pc EXCEPT ![p] = "persist_state3"]
  /\ UNCHANGED <<shortTermMemory, longTermMemory, workingMemory, initialized, clock, op, obs,
                 ingests>>

\* the snapshot write of updateWorkingMemory ends; processNewAnalysis returns
PersistState3(p, ok) ==
  /\ pc[p] = "persist_state3"
  /\ UNCHANGED <<fnVars, indexVars>>
  /\ WriteMay(ok)
  /\ disk' = IF ok
             THEN [disk EXCEPT !.state = Snapshot(loc[p].wState.stm, loc[p].wState.ltm,
                                                  loc[p].wState.wm)]
             ELSE disk
  /\ loc' = [loc EXCEPT ![p].wState = NoLoc.wState]
  /\ pc' = [pc EXCEPT ![p] = "done"]
  /\ UNCHANGED <<shortTermMemory, longTermMemory, workingMemory, initialized, clock, op, obs,
                 ingests>>

\* the handler that awaited processNewAnalysis finishes
(***************************************************************************)
(* The read paths: GET /api/memory and POST /api/memory/query.             *)
(***************************************************************************)
\* no call of initialize(), processNewAnalysis or conversationalMemoryQuery
\* is in progress
Quiet == \A o \in Procs : pc[o] = "idle" \/ op[o] = "getState"

\* the handler of GET /api/memory: getMemoryState() and res.json, in one turn
GetStateFromDisk(p) ==
  /\ pc[p] = "idle"
  /\ UNCHANGED <<fnVars, indexVars>>
  /\ pc' = [pc EXCEPT ![p] = "done"]
  /\ op' = [op EXCEPT ![p] = "getState"]
  /\ loc' = [loc EXCEPT ![p] =
               [NoLoc EXCEPT !.memoryState =
                  [stm |-> disk.state.stm, ltm |-> disk.state.ltm, wm |-> disk.state.wm]]]
  /\ obs' = [obs EXCEPT ![p] = NoObs]
  /\ UNCHANGED <<shortTermMemory, longTermMemory, workingMemory, initialized, clock, disk,
                 ingests, failures>>
GetState(p) ==
  /\ pc[p] = "idle"
  /\ UNCHANGED <<fnVars, indexVars>>
  /\ pc' = [pc EXCEPT ![p] = "done"]
  /\ op' = [op EXCEPT ![p] = "getState"]
  /\ loc' = [loc EXCEPT ![p] = [NoLoc EXCEPT !.memoryState = CompleteState]]
  /\ obs' = [obs EXCEPT ![p] = [NoObs EXCEPT !.quiet = Quiet, !.ingestsAt = ingests]]
  /\ UNCHANGED <<shortTermMemory, longTermMemory, workingMemory, initialized, clock, disk,
                 ingests, failures>>

\* a handler calls conversationalMemoryQuery(q): it awaits initialize() or
\* builds the prompt and suspends in generateContent
StartQuery(p, q, serial) ==
  /\ pc[p] = "idle"
  /\ UNCHANGED <<fnVars, indexVars>>
  /\ serial => \A o \in Procs : pc[o] = "idle"
  /\ pc' = [pc EXCEPT ![p] = IF initialized THEN "query" ELSE "init_state"]
  /\ op' = [op EXCEPT ![p] = "query"]
  /\ loc' = [loc EXCEPT ![p] =
               IF initialized
               THEN [NoLoc EXCEPT !.query = q,
                                  !.memoryState = [CompleteState EXCEPT !.stm = LastTen(@)]]
               ELSE [NoLoc EXCEPT !.query = q]]
  /\ obs' = [obs EXCEPT ![p] = NoObs]
  /\ UNCHANGED <<shortTermMemory, longTermMemory, workingMemory, initialized, clock, disk,
                 ingests, failures>>

\* generateContent of conversationalMemoryQuery ends with r: the answer is
\* the response text, or the apology of the catch block
QueryReturn(p, r) ==
  /\ pc[p] = "query"
  /\ UNCHANGED <<fnVars, indexVars>>
  /\ pc' = [pc EXCEPT ![p] = "done"]
  /\ obs' = [obs EXCEPT ![p].answer = IF r.kind = "throw" THEN "apology" ELSE "text"]
  /\ UNCHANGED <<shortTermMemory, longTermMemory, workingMemory, initialized, clock, disk,
                 op, loc, ingests, failures>>

\* a caller applies an estimator to a text of size characters ("class") or
\* of size words ("function")
Estimate(p, estimator, size) ==
  /\ pc[p] = "idle"
  /\ UNCHANGED <<fnVars, indexVars>>
  /\ pc' = [pc EXCEPT ![p] = "done"]
  /\ op' = [op EXCEPT ![p] = "estimate"]
  /\ loc' = [loc EXCEPT ![p] = NoLoc]
  /\ obs' = [obs EXCEPT ![p] =
               [NoObs EXCEPT !.estimator = estimator,
                             !.size = size,
                             !.tokens = IF estimator = "class"
                                        THEN estimateTokens(size)
                                        ELSE estimateTokensOfWords(size)]]
  /\ UNCHANGED <<shortTermMemory, longTermMemory, workingMemory, initialized, clock, disk,
                 ingests, failures>>

Return(p) ==
  /\ pc[p] = "done"
  /\ UNCHANGED <<fnVars, indexVars>>
  /\ pc' = [pc EXCEPT ![p] = "idle"]
  /\ op' = [op EXCEPT ![p] = "none"]
  /\ loc' = [loc EXCEPT ![p] = NoLoc]
  /\ obs' = [obs EXCEPT ![p] = NoObs]
  /\ UNCHANGED <<shortTermMemory, longTermMemory, workingMemory, initialized, clock, disk,
                 ingests, failures>>

(***************************************************************************)
(* Specifications.  In Spec the handlers run one after the other, which is *)
(* what the design expects of its callers; in SpecConc they overlap as the *)
(* handlers of index.mjs can.                                              *)
(***************************************************************************)
\* one step of handler p: an await ends; writes end as Oks allows, the
\* summarizer answers from the given sets and the clock advances by Ticks
Step(p, Oks, Ticks, Merges, LtmTrims, Wms, WmTrims) ==
  \/ InitReadState(p, Ticks)
  \/ InitReadLTM(p)
  \/ InitReadWM(p)
  \/ InitReadSTM(p)
  \/ \E ok \in Oks : InitPersist(p, ok, Ticks)
  \/ \E ok \in Oks : PersistSTM(p, ok)
  \/ \E ok \in Oks : PersistState(p, ok)
  \/ \E r \in Merges : MergeReturn(p, r)
  \/ \E r \in LtmTrims : LtmTrimReturn(p, r)
  \/ \E ok \in Oks : PersistLTM(p, ok)
  \/ \E ok \in Oks : PersistSTM2(p, ok)
  \/ \E ok \in Oks : PersistState2(p, ok)
  \/ \E r \in Wms : WmReturn(p, r)
  \/ \E r \in WmTrims : WmTrimReturn(p, r)
  \/ \E ok \in Oks : PersistWM(p, ok)
  \/ \E ok \in Oks : PersistState3(p, ok)
  \/ Return(p)

\* one handler at a time, so that two appends are at least a file write and a
\* summarizer call apart; every write succeeds; any summarizer response
Next ==
  \/ \E R \in AnalysisResults : StartIngest(1, R, TRUE, {1})
  \/ \E p \in Procs :
       Step(p, {TRUE}, {1}, MergeResponses, LtmTrimResponses, WmResponses, WmTrimResponses)

Spec == Init /\ [][Next]_vars

\* the inputs of the overlapping handlers
ConcResults == {R \in AnalysisResults : R.summary.s = "big"}
ConcMerges == {Json(LtmBig)}
ConcLtmTrims == {Json(LtmSmall)}
ConcWms == {Json(WmHuge)}
ConcWmTrims == {Json(WmSmall)}

\* handlers overlap: each starts whenever it is idle
NextConc ==
  \/ \E p \in Procs : \E R \in ConcResults : StartIngest(p, R, FALSE, {0, 1})
  \/ \E p \in Procs : Step(p, {TRUE}, {0, 1}, ConcMerges, ConcLtmTrims, ConcWms, ConcWmTrims)

SpecConc == Init /\ [][NextConc]_vars

\* an over-budget LTM with neither profile_summary nor preferences_and_habits
LtmBigNoProfile ==
  Obj(("skills_and_knowledge" :>
         Sec("confirmed_skills" :>
               Arr(<<Short("k1"), Short("k2"), Short("k3"), Short("k4"), Short("k5"),
                     Short("k6")>>)))
      @@ ("workflows" :> Sec("common_tasks" :> Arr(<<Huge("w1")>>))))

\* an STM written while the system clock was set back between two ingests
UnsortedStm ==
  <<Entry(0, "video_analysis_summary", MidData("late")),
    Entry(-1, "video_analysis_summary", MidData("early")),
    Entry(-1, "inferred_insight", MidData("e1"))>>

\* the memory directory at process start: empty; left with an STM that is
\* not in timestamp order, beside per-tier files that an earlier run failed
\* to rewrite; left with an LTM that is over budget; holding only stm.json
\* and ltm.json
EdgeDisks ==
  { [state |-> NoSnapshot, stm |-> NoStmFile, ltm |-> NoDocFile, wm |-> NoDocFile],
    [state |-> Snapshot(UnsortedStm, LtmSmall, WmSmall), stm |-> StmFile(OldStm),
     ltm |-> DocFile(LtmPartial), wm |-> DocFile(WmLong)],
    [state |-> Snapshot(OldStm, LtmBigNoProfile, WmSmall), stm |-> StmFile(OldStm),
     ltm |-> DocFile(LtmBigNoProfile), wm |-> DocFile(WmSmall)],
    [state |-> NoSnapshot, stm |-> StmFile(OldStm), ltm |-> DocFile(LtmSmall),
     wm |-> NoDocFile] }

\* a single entry of about 10000 tokens, and the four entries of about 2000
EdgeResults ==
  {Result(NoText, Text("huge", 40000), Absent, Absent, Absent)}
    \cup {R \in AnalysisResults : R.summary.s = "mid"}

\* 32000 characters: 8000 tokens exactly
LtmAtLimit ==
  Obj([LtmSmall.f EXCEPT !["workflows"] = Sec("common_tasks" :> Arr(<<Item("w1", 31371)>>))])

EdgeMerges == {Throw, Json(LtmBig), Json(LtmAtLimit)}
EdgeLtmTrims == {Throw, BadText, Json(LtmSmall)}
EdgeWms == {Throw, BadText, Json(WmSmall), Json(WmLong), Json(WmHuge)}
EdgeWmTrims == {BadText, Json(WmSmall)}

\* one handler at a time, on the edge cases of the tiers
NextEdge ==
  \/ \E R \in EdgeResults : StartIngest(1, R, TRUE, {1})
  \/ \E p \in Procs : Step(p, {TRUE}, {1}, EdgeMerges, EdgeLtmTrims, EdgeWms, EdgeWmTrims)

SpecEdge == InitWith(EdgeDisks) /\ [][NextEdge]_vars

\* the inputs of the handlers whose writes can fail: an ingest within the
\* STM budget and one over it; every kind of summarizer response
WriteDisks == {D \in InitialDisks : ~D.state.present /\ ~D.stm.present}
WriteResults == {R \in AnalysisResults : R.summary.s \in {"test", "mid"}}
WriteMerges == {Throw, BadText, Json(LtmBig)}
WriteLtmTrims == {Throw, BadText, Json(LtmSmall)}
WriteWms == {Throw, BadText, Json(WmHuge)}
WriteWmTrims == {Throw, BadText, Json(WmSmall)}

\* one handler at a time; each fs.writeFile resolves or rejects
NextWrite ==
  \/ \E R \in WriteResults : StartIngest(1, R, TRUE, {1})
  \/ \E p \in Procs :
       Step(p, {TRUE, FALSE}, {1}, WriteMerges, WriteLtmTrims, WriteWms, WriteWmTrims)

SpecWrite == InitWith(WriteDisks) /\ [][NextWrite]_vars

\* every pending fs call and every pending generateContent call settles
Settles ==
  \A p \in Procs :
    WF_vars(Step(p, {TRUE, FALSE}, {1}, WriteMerges, WriteLtmTrims, WriteWms, WriteWmTrims))

SpecWriteFair == SpecWrite /\ Settles

\* the inputs of the read paths: an ingest within the STM budget and one over
\* it; valid and failing summarizer responses; a query and its two outcomes
ReadResults == {R \in AnalysisResults : R.summary.s \in {"test", "mid"}}
ReadMerges == {Throw, Json(LtmBig)}
ReadLtmTrims == {Throw, Json(LtmSmall)}
ReadWms == {BadText, Json(WmHuge)}
ReadWmTrims == {BadText, Json(WmSmall)}
Queries == {Text("q", 24)}
QueryResponses == {Throw, BadText}

\* one ingest or query at a time; GET /api/memory is served in one turn, at
\* any point between two awaits of the others
NextRead ==
  \/ \E R \in ReadResults : StartIngest(1, R, TRUE, {1})
  \/ \E p \in Procs : \E q \in Queries : StartQuery(p, q, TRUE)
  \/ \E p \in Procs : \E r \in QueryResponses : QueryReturn(p, r)
  \/ \E p \in Procs : GetState(p)
  \/ \E p \in Procs :
       Step(p, {TRUE}, {1}, ReadMerges, ReadLtmTrims, ReadWms, ReadWmTrims)

SpecRead == Init /\ [][NextRead]_vars

\* queries and ingests overlap: each handler starts whenever it is idle
NextRace ==
  \/ \E R \in ConcResults : StartIngest(1, R, FALSE, {1})
  \/ \E p \in Procs : \E q \in Queries : StartQuery(p, q, FALSE)
  \/ \E p \in Procs : \E r \in QueryResponses : QueryReturn(p, r)
  \/ \E p \in Procs : Step(p, {TRUE}, {1}, ConcMerges, ConcLtmTrims, ConcWms, ConcWmTrims)

SpecRace == Init /\ [][NextRace]_vars

\* the manager as constructed, before any of its methods is called
Constructed ==
  /\ shortTermMemory = <<>>
  /\ longTermMemory = EmptyLTM
  /\ workingMemory = EmptyWM
  /\ initialized = FALSE
  /\ clock = 0
  /\ disk \in WriteDisks
  /\ FnConstructed
  /\ IndexConstructed
  /\ pc = [p \in Procs |-> "idle"]
  /\ op = [p \in Procs |-> "none"]
  /\ loc = [p \in Procs |-> NoLoc]
  /\ obs = [p \in Procs |-> NoObs]
  /\ ingests = 0
  /\ failures = 0

\* the estimators applied to texts of every size up to MaxTextLen
NextEstimate ==
  \/ \E p \in Procs : \E estimator \in {"class", "function"} : \E size \in 0..MaxTextLen :
       Estimate(p, estimator, size)
  \/ \E p \in Procs : Return(p)

SpecEstimate == Constructed /\ [][NextEstimate]_vars

(***************************************************************************)
(* The function-based memory manager (initializeMemoryManager,             *)
(* addEventToStm, checkAndTrimStm).  An STM entry is the record of its     *)
(* event: the serial of the addEventToStm call stands for its timestamp,   *)
(* words for the size of its data.  ltmContent is the sequence of the      *)
(* summaries appended to ltmContent.summary, each summary standing as the  *)
(* entries it was made from; eventWm is the background call whose response *)
(* wm holds, 0 for the default.                                            *)
(***************************************************************************)
\* loadMemory() and isInitialized = true; updateWorkingMemory() is called.
\* The awaits of loadMemory are one step: until isInitialized is set
\* addEventToStm returns at once, so nothing can interleave with them.
initializeMemoryManager ==
  /\ ~isInitialized
  /\ isInitialized' = TRUE
  /\ background' = [background EXCEPT ![0].wm = "call"]
  /\ UNCHANGED <<eventStm, ltmContent, eventWm, memVars, indexVars>>

\* the loop of checkAndTrimStm: how many of the oldest entries go to entriesToSummarize
RECURSIVE SummarizeCount(_, _, _)
SummarizeCount(stm, i, tokensToTrim) ==
  IF i > Len(stm) \/ tokensToTrim >= STM_TRIM_THRESHOLD
  THEN i - 1
  ELSE SummarizeCount(stm, i + 1, tokensToTrim + stm[i].tokenEstimate)

\* addEventToStm(event) with data of that many words: the push, then
\* checkAndTrimStm() up to its await of summarizeStmForLtm, then
\* updateWorkingMemory() up to its await of geminiApiCall
addEventToStm(words) ==
  \E e \in 1..MaxEvents :
    LET entry == [timestamp |-> e, words |-> words,
                  tokenEstimate |-> estimateTokensOfWords(words)]
        stm1 == Append(eventStm, entry)
        over == SumSeq([i \in 1..Len(stm1) |-> stm1[i].tokenEstimate]) > STM_TOKEN_LIMIT
        n == SummarizeCount(stm1, 1, 0)
    IN /\ isInitialized
       /\ background[e].wm = "none"
       /\ \A d \in 1..(e - 1) : background[d].wm # "none"
       /\ eventStm' = stm1
       /\ background' =
            [background EXCEPT ![e] =
               IF over
               THEN [trim |-> "summarize", entriesToSummarize |-> SubSeq(stm1, 1, n),
                     entriesToKeep |-> SubSeq(stm1, n + 1, Len(stm1)), wm |-> "call"]
               ELSE [@ EXCEPT !.trim = "done", !.wm = "call"]]
       /\ UNCHANGED <<isInitialized, ltmContent, eventWm, memVars, indexVars>>

\* summarizeStmForLtm of call e ends, with a summary or with "" (the request
\* failed or the model returned nothing); with a summary it is appended to
\* the LTM and persistLtm() is called
SummarizeReturn(e, summary) ==
  /\ background[e].trim = "summarize"
  /\ IF summary
     THEN /\ ltmContent' = Append(ltmContent, background[e].entriesToSummarize)
          /\ background' = [background EXCEPT ![e].trim = "persist"]
     ELSE /\ background' = [background EXCEPT ![e].trim = "done"]
          /\ UNCHANGED ltmContent
  /\ UNCHANGED <<isInitialized, eventStm, eventWm, memVars, indexVars>>

\* the ltm.json write of call e ends (a failure is caught in persistLtm);
\* stm = entriesToKeep
PersistLtmReturn(e) ==
  /\ background[e].trim = "persist"
  /\ eventStm' = background[e].entriesToKeep
  /\ background' = [background EXCEPT ![e].trim = "done"]
  /\ UNCHANGED <<isInitialized, ltmContent, eventWm, memVars, indexVars>>

\* geminiApiCall of updateWorkingMemory of call e ends: a response of the
\* required shape is assigned and persistWm() is called; anything else,
\* or a rejection, leaves wm as it is
UpdateWmReturn(e, valid) ==
  /\ background[e].wm = "call"
  /\ eventWm' = IF valid THEN e + 1 ELSE eventWm
  /\ background' = [background EXCEPT ![e].wm = IF valid THEN "persist" ELSE "done"]
  /\ UNCHANGED <<isInitialized, eventStm, ltmContent, memVars, indexVars>>

\* the wm.json write of call e ends
PersistWmReturn(e) ==
  /\ background[e].wm = "persist"
  /\ background' = [background EXCEPT ![e].wm = "done"]
  /\ UNCHANGED <<isInitialized, eventStm, ltmContent, eventWm, memVars, indexVars>>

\* events of 10, 2400 and 7000 words (13, 3120 and 9100 tokens) arrive at any
\* time; every background call ends at any time, in any order
NextFn ==
  \/ initializeMemoryManager
  \/ \E words \in {10, 2400, 7000} : addEventToStm(words)
  \/ \E e \in 1..MaxEvents : \E summary \in BOOLEAN : SummarizeReturn(e, summary)
  \/ \E e \in 1..MaxEvents : PersistLtmReturn(e)
  \/ \E e \in 0..MaxEvents : \E valid \in BOOLEAN : UpdateWmReturn(e, valid)
  \/ \E e \in 0..MaxEvents : PersistWmReturn(e)

SpecFn == Constructed /\ [][NextFn]_vars

(***************************************************************************)
(* index.mjs: the watcher 'add' handler and scanForMissedVideos, with      *)
(* analyzeVideo of video-processor.mjs.  A handler is one running call of  *)
(* either; a file is named by its place in the watch folder, which stands  *)
(* for its path and for its base name.  ingested counts the calls of       *)
(* processNewAnalysis per file, up to 2.                                   *)
(***************************************************************************)
\* setupWatcher() after loadProcessedVideos(): every file that has an
\* analysis file in the dataset folder is in processedVideos
IndexStarted ==
  /\ shortTermMemory = <<>>
  /\ longTermMemory = EmptyLTM
  /\ workingMemory = EmptyWM
  /\ initialized = FALSE
  /\ clock = 0
  /\ disk \in WriteDisks
  /\ pc = [p \in Procs |-> "idle"]
  /\ op = [p \in Procs |-> "none"]
  /\ loc = [p \in Procs |-> NoLoc]
  /\ obs = [p \in Procs |-> NoObs]
  /\ ingests = 0
  /\ failures = 0
  /\ FnConstructed
  /\ processingFiles = {}
  /\ dataset \in [1..NumFiles -> {"none", "failed", "ok"}]
  /\ processedVideos = {f \in 1..NumFiles : dataset[f] # "none"}
  /\ handlers = [h \in Procs |->
                   [kind |-> "none", pc |-> "idle", file |-> 0, jsonFiles |-> <<>>,
                    videoFiles |-> <<>>, attempts |-> 0, retryCount |-> 0,
                    progress |-> "none"]]
  /\ ingested = [f \in 1..NumFiles |-> 0]

\* handler h, whose locals are hr, is done with its file, if it holds one
\* (the finally deletes it from processingFiles), and goes on without
\* suspending: a watcher handler returns; a scan reads the next analysis
\* file of its first loop, or runs its second loop up to the first file that
\* is neither processed nor being processed, adds it to processingFiles and
\* calls isFileStable, or returns at the end of the list
Continue(h, hr) ==
  LET processing == processingFiles \ {hr.file}
      todo == hr.videoFiles
      missed == {i \in 1..Len(todo) :
                   todo[i] \notin processedVideos /\ todo[i] \notin processing}
      rest == [hr EXCEPT !.file = 0, !.attempts = 0, !.retryCount = 0, !.progress = "none"]
  IN IF hr.kind = "scan" /\ hr.jsonFiles # <<>>
     THEN /\ handlers' = [handlers EXCEPT ![h] = [rest EXCEPT !.pc = "read_json"]]
          /\ processingFiles' = processing
     ELSE IF hr.kind = "scan" /\ missed # {}
     THEN LET i == CHOOSE i \in missed : \A j \in missed : i <= j IN
          /\ handlers' = [handlers EXCEPT ![h] =
                            [rest EXCEPT !.pc = "stable", !.file = todo[i],
                                         !.videoFiles = SubSeq(todo, i + 1, Len(todo))]]
          /\ processingFiles' = processing \cup {todo[i]}
     ELSE /\ handlers' = [handlers EXCEPT ![h] =
                            [rest EXCEPT !.kind = "none", !.pc = "idle", !.videoFiles = <<>>]]
          /\ processingFiles' = processing

\* a watcher handler that does not look at processingFiles
WatcherAddUnguarded(h, f) ==
  /\ handlers[h].pc = "idle"
  /\ f \notin processedVideos
  /\ processingFiles' = processingFiles \cup {f}
  /\ handlers' = [handlers EXCEPT ![h].kind = "watcher", ![h].pc = "stable", ![h].file = f]
  /\ UNCHANGED <<processedVideos, dataset, ingested, memVars, fnVars>>

\* chokidar reports file f (an .mp4): the handler returns at once when f is
\* processed or being processed, and otherwise adds it to processingFiles
\* and waits for the recording to end
WatcherAdd(h, f) ==
  /\ handlers[h].pc = "idle"
  /\ f \notin processedVideos
  /\ f \notin processingFiles
  /\ processingFiles' = processingFiles \cup {f}
  /\ handlers' = [handlers EXCEPT ![h].kind = "watcher", ![h].pc = "stable", ![h].file = f]
  /\ UNCHANGED <<processedVideos, dataset, ingested, memVars, fnVars>>

\* scanForMissedVideos() is called (at startup or by the interval) and has
\* listed the two folders
ScanStart(h) ==
  /\ handlers[h].pc = "idle"
  /\ Continue(h, [handlers[h] EXCEPT
                     !.kind = "scan",
                     !.jsonFiles = SelectSeq([f \in 1..NumFiles |-> f],
                                             LAMBDA f : dataset[f] # "none"),
                     !.videoFiles = [f \in 1..NumFiles |-> f]])
  /\ UNCHANGED <<processedVideos, dataset, ingested, memVars, fnVars>>

\* first loop of the scan: the analysis file of the next recording has been
\* read; a recording whose analysis carries the error and that is not being
\* processed is added to processingFiles and isFileStable is called
ScanReadJson(h) ==
  /\ handlers[h].pc = "read_json"
  /\ LET f == Head(handlers[h].jsonFiles)
         hr == [handlers[h] EXCEPT !.jsonFiles = Tail(@)]
     IN IF dataset[f] = "failed" /\ f \notin processingFiles
        THEN /\ handlers' = [handlers EXCEPT ![h] = [hr EXCEPT !.pc = "stable", !.file = f]]
             /\ processingFiles' = processingFiles \cup {f}
        ELSE Continue(h, hr)
  /\ UNCHANGED <<processedVideos, dataset, ingested, memVars, fnVars>>

\* isFileStable ends: a stable file is handed to analyzeVideo, which calls
\* uploadVideoFile; the watcher handler checks an unstable file again, up to
\* STABLE_ATTEMPTS times, the scan leaves it for later
StableReturn(h, stable) ==
  /\ handlers[h].pc = "stable"
  /\ IF stable
     THEN /\ handlers' = [handlers EXCEPT ![h].pc = "upload"]
          /\ UNCHANGED processingFiles
     ELSE IF handlers[h].kind = "watcher" /\ handlers[h].attempts + 1 < STABLE_ATTEMPTS
          THEN /\ handlers' = [handlers EXCEPT ![h].attempts = @ + 1]
               /\ UNCHANGED processingFiles
          ELSE Continue(h, handlers[h])
  /\ UNCHANGED <<processedVideos, dataset, ingested, memVars, fnVars>>

\* uploadVideoFile ends: after an upload checkProgress is called; a failed
\* upload is caught by analyzeVideo, which returns its error result, and the
\* handler calls saveToDataset
UploadReturn(h, ok) ==
  /\ handlers[h].pc = "upload"
  /\ handlers' = [handlers EXCEPT ![h].pc = IF ok THEN "poll" ELSE "save"]
  /\ UNCHANGED <<processingFiles, processedVideos, dataset, ingested, memVars, fnVars>>

\* the loop of analyzeVideo.  checkProgress ends with the state of the
\* uploaded file, or with "error" when getFile failed: ACTIVE ends the loop
\* and generateContent is called; after anything else wait(waitTime) is
\* called.  When the wait ends retryCount is incremented and checkProgress is
\* called again.  The service does not leave FAILED.  retryCount only sets
\* the waiting time, which is not part of the state; it is counted up to
\* MaxRetryCount and stays there.
CheckProgressReturn(h, state) ==
  \/ /\ handlers[h].pc = "poll"
     /\ handlers[h].progress = "FAILED" => state = "FAILED"
     /\ handlers' = [handlers EXCEPT ![h].progress = state,
                                     ![h].pc = IF state = "ACTIVE" THEN "generate" ELSE "wait"]
     /\ UNCHANGED <<processingFiles, processedVideos, dataset, ingested, memVars, fnVars>>
  \/ /\ handlers[h].pc = "wait"
     /\ state = handlers[h].progress
     /\ handlers' = [handlers EXCEPT ![h].pc = "poll",
                                     ![h].retryCount = IF @ < MaxRetryCount THEN @ + 1 ELSE @]
     /\ UNCHANGED <<processingFiles, processedVideos, dataset, ingested, memVars, fnVars>>

\* generateContent (and analyzeVideoForInsights after it) ends: whatever the
\* outcome analyzeVideo returns a result, and the handler calls saveToDataset
GenerateReturn(h) ==
  /\ handlers[h].pc = "generate"
  /\ handlers' = [handlers EXCEPT ![h].pc = "save"]
  /\ UNCHANGED <<processingFiles, processedVideos, dataset, ingested, memVars, fnVars>>

\* the write of saveToDataset ends: the analysis file of the recording now
\* holds this result, and processNewAnalysis is called; a failed write
\* throws, which ends the handler's try
SaveReturn(h, ok) ==
  /\ handlers[h].pc = "save"
  /\ IF ok
     THEN /\ dataset' = [dataset EXCEPT ![handlers[h].file] = "ok"]
          /\ ingested' = [ingested EXCEPT ![handlers[h].file] = IF @ < 2 THEN @ + 1 ELSE @]
          /\ handlers' = [handlers EXCEPT ![h].pc = "ingest"]
          /\ UNCHANGED processingFiles
     ELSE /\ Continue(h, handlers[h])
          /\ UNCHANGED <<dataset, ingested>>
  /\ UNCHANGED <<processedVideos, memVars, fnVars>>

\* processNewAnalysis ends: the file is added to processedVideos and the
\* thumbnail is generated
IngestReturn(h) ==
  /\ handlers[h].pc = "ingest"
  /\ processedVideos' = processedVideos \cup {handlers[h].file}
  /\ handlers' = [handlers EXCEPT ![h].pc = "thumbnail"]
  /\ UNCHANGED <<processingFiles, dataset, ingested, memVars, fnVars>>

\* ensureThumbnailFolder and generateThumbnail end, well or not
ThumbnailReturn(h) ==
  /\ handlers[h].pc = "thumbnail"
  /\ Continue(h, handlers[h])
  /\ UNCHANGED <<processedVideos, dataset, ingested, memVars, fnVars>>

\* the pending call of handler h settles
Resume(h) ==
  \/ ScanReadJson(h)
  \/ \E stable \in BOOLEAN : StableReturn(h, stable)
  \/ \E ok \in BOOLEAN : UploadReturn(h, ok)
  \/ \E state \in {"PROCESSING", "ACTIVE", "FAILED", "error"} : CheckProgressReturn(h, state)
  \/ GenerateReturn(h)
  \/ \E ok \in BOOLEAN : SaveReturn(h, ok)
  \/ IngestReturn(h)
  \/ ThumbnailReturn(h)

\* chokidar reports any file at any time and a scan starts at any time,
\* whatever else is running
NextIndex ==
  \/ \E h \in Procs : \E f \in 1..NumFiles : WatcherAdd(h, f)
  \/ \E h \in Procs : ScanStart(h)
  \/ \E h \in Procs : Resume(h)

\* every pending timer, file operation and request settles
SpecIndex == IndexStarted /\ [][NextIndex]_vars /\ \A h \in Procs : WF_vars(Resume(h))

(***************************************************************************)
(* Properties.                                                             *)
(***************************************************************************)
Ingesting(p) == op[p] = "ingest"

\* C1: when the merge summarizer call of a consolidation fails (it throws or
\* its text cannot be parsed), the consolidation leaves both tiers untouched:
\* the STM keeps every entry it had when the slice was selected and the LTM
\* keeps its value.
C1_FailedMergeLeavesTiers ==
  \A p \in Procs :
    (Ingesting(p) /\ obs[p].merge \in {"throw", "text"})
      => /\ shortTermMemory = obs[p].stmAtSelect
         /\ longTermMemory = obs[p].ltmAtSelect

\* the length of a list field, 0 when the field is absent or not an array
CountOf(field) == IF field.kind = "array" THEN Len(field.items) ELSE 0

\* C2: the append step of processNewAnalysis(R) adds exactly
\* 1 + |directives| + |statements| + |insights| entries at the end of the STM
\* (an absent or non-array field counts 0): one video_analysis_summary, then
\* the directives, the statements and the insights, each in input order; the
\* entries already in the STM stay in front, unchanged.
C2_AppendCountAndOrder ==
  [][\A p \in Procs :
       (pc[p] # "persist_stm" /\ pc'[p] = "persist_stm") =>
         LET R == loc'[p].analysisResult
             old == IF initialized THEN shortTermMemory ELSE obs'[p].before
             new == shortTermMemory'
             nd == CountOf(R.explicit_directives)
             ns == CountOf(R.explicit_statements)
             ni == CountOf(R.inferred_insights)
             at == Len(old)
         IN /\ Len(new) = at + 1 + nd + ns + ni
            /\ SubSeq(new, 1, at) = old
            /\ new[at + 1].type = "video_analysis_summary"
            /\ \A i \in 1..nd :
                 /\ new[at + 1 + i].type = "explicit_directive"
                 /\ new[at + 1 + i].data = R.explicit_directives.items[i]
            /\ \A i \in 1..ns :
                 /\ new[at + 1 + nd + i].type = "explicit_statement"
                 /\ new[at + 1 + nd + i].data = R.explicit_statements.items[i]
            /\ \A i \in 1..ni :
                 /\ new[at + 1 + nd + ns + i].type = "inferred_insight"
                 /\ new[at + 1 + nd + ns + i].data = R.inferred_insights.items[i]
    ]_vars

\* the result with one item in every list has been appended behind the three
\* entries loaded from disk
C2_Witness ==
  /\ pc[1] = "persist_stm"
  /\ loc[1].analysisResult.summary.s = "full"
  /\ Len(shortTermMemory) = 7

\* an object with exactly the three WM keys, each an array (of strings)
ValidWM(doc) ==
  /\ doc.t = "obj"
  /\ Keys(doc) = WmKeys
  /\ \A k \in Keys(doc) : doc.f[k].t = "arr"

\* C3: a WM re-derivation response that is not an object with exactly the
\* three keys, each an array of strings, is rejected: workingMemory keeps the
\* value it had before the call.
C3_BadShapeRejected ==
  \A p \in Procs :
    (Ingesting(p) /\ obs[p].wmResp = "json" /\ ~ValidWM(obs[p].wmDoc))
      => workingMemory = obs[p].wmBefore

\* a consolidation that has selected its slice and not yet removed it
InFlight(p) == pc[p] \in {"merge", "trim_ltm", "persist_ltm"}

\* C4: ingests are serialized: never are two consolidations in flight whose
\* slices were selected from the same over-budget STM (both slices begin with
\* the same oldest entry).
C4_OneConsolidationInFlight ==
  \A p, q \in Procs :
    (p # q /\ InFlight(p) /\ InFlight(q))
      => Head(loc[p].oldestEntries) # Head(loc[q].oldestEntries)

\* C5: after a successful merge and after any LTM trim, longTermMemory has
\* exactly the seven section keys.
C5_LtmHasSevenSections ==
  \A p \in Procs :
    (pc[p] = "persist_ltm" /\ (obs[p].merge = "json" \/ obs[p].trim # "none"))
      => Keys(longTermMemory) = LtmSections

\* C6: in every reachable state workingMemory has exactly the three keys,
\* each an array.
C6_WmAlwaysThreeArrays == ValidWM(workingMemory)

\* C7: an ingest calls the merge summarizer exactly once when the STM estimate
\* after the append is above 8000, and otherwise never calls it and removes
\* nothing from the STM.
C7_ConsolidationIffOverBudget ==
  \A p \in Procs :
    /\ obs[p].mergeCalls <= 1
    /\ (Ingesting(p) /\ pc[p] = "done") =>
         IF StmTokens(obs[p].appended) > 8000
         THEN obs[p].mergeCalls = 1
         ELSE obs[p].mergeCalls = 0 /\ shortTermMemory = obs[p].appended

\* an ingest whose append left the STM above the budget has consolidated once
C7_Witness ==
  /\ pc[1] = "done"
  /\ StmTokens(obs[1].appended) > 8000
  /\ obs[1].mergeCalls = 1

\* C8: when the merge succeeds with a slice of n entries, the LTM is replaced
\* by the summarizer's document, and the removal drops exactly the first n
\* entries of the timestamp-sorted STM: what is left is the rest of it,
\* unchanged and in order, and its estimate is strictly smaller (n >= 1).
C8_SuccessfulConsolidation ==
  [][\A p \in Procs :
       /\ (pc[p] = "merge" /\ pc'[p] # "merge" /\ obs'[p].merge = "json")
            => longTermMemory' = obs'[p].mergeDoc
       /\ (pc[p] = "persist_ltm" /\ pc'[p] = "persist_stm2" /\ obs[p].merge = "json")
            => LET old == obs[p].stmAtSelect
                   n == Len(loc[p].oldestEntries)
               IN /\ n >= 1
                  /\ \A i \in 1..(Len(old) - 1) : old[i].timestamp <= old[i + 1].timestamp
                  /\ loc[p].oldestEntries = SubSeq(old, 1, n)
                  /\ Len(shortTermMemory') = Len(old) - n
                  /\ \A i \in 1..Len(shortTermMemory') : shortTermMemory'[i] = old[i + n]
                  /\ StmTokens(shortTermMemory') < StmTokens(old)
                  /\ obs[p].trim = "none" => longTermMemory = obs[p].mergeDoc
    ]_vars

\* a slice of two entries has been merged and removed
C8_Witness ==
  /\ pc[1] = "persist_stm2"
  /\ obs[1].merge = "json"
  /\ Len(obs[1].stmAtSelect) = Len(shortTermMemory) + 2

\* every summarizer call of the ingest returned a parseable document
AllValid(o) ==
  /\ o.merge \in {"none", "json"}
  /\ o.trim \in {"none", "json"}
  /\ o.wmResp \in {"none", "json"}
  /\ o.wmTrim \in {"none", "json"}

\* C9: when an ingest in which every summarizer call returned a valid
\* response completes, the STM estimate is at most 8000.
C9_StmWithinBudgetAfterIngest ==
  \A p \in Procs :
    (Ingesting(p) /\ pc[p] = "done" /\ AllValid(obs[p]))
      => StmTokens(shortTermMemory) <= 8000

\* C10: when trimLTM ends after a parseable response (accepted as it is or
\* projected onto the priority list), the LTM estimate is at most 8000.
C10_LtmWithinBudgetAfterTrim ==
  \A p \in Procs :
    (pc[p] = "persist_ltm" /\ obs[p].trim = "json")
      => LtmTokens(longTermMemory) <= 8000

\* the LTM that checkLTMSize() measured: the merge result, or the LTM kept
\* when the merge failed
PreTrimLTM(o) == IF o.merge = "json" THEN o.mergeDoc ELSE o.ltmAtSelect

\* the (section, field) pairs of a document
FieldsOf(doc) ==
  UNION {{<<a, b>> : b \in DOMAIN doc.f[a].f} : a \in {k \in Keys(doc) : doc.f[k].t = "obj"}}

\* the ranked fields below the top level
RankedFields ==
  {<<"skills_and_knowledge", "confirmed_skills">>, <<"preferences_and_habits", "ui_preferences">>,
   <<"preferences_and_habits", "tool_preferences">>, <<"goals_and_motivations", "stated_goals">>,
   <<"challenges", "recurring_frustrations">>}

\* l keeps exactly the ranked fields that src has, with src's values
IsProjection(l, src) ==
  /\ FieldsOf(l) = FieldsOf(src) \cap RankedFields
  /\ \A ab \in FieldsOf(l) : l.f[ab[1]].f[ab[2]] = src.f[ab[1]].f[ab[2]]
  /\ ("profile_summary" \in Keys(l)) = ("profile_summary" \in Keys(src))
  /\ "profile_summary" \in Keys(l) => l.f["profile_summary"] = src.f["profile_summary"]
  /\ \A k \in Keys(l) : k = "profile_summary" \/ l.f[k].t = "obj"

\* C11: when the condensed response of trimLTM is still over budget, or is
\* not parseable, the LTM becomes the priority projection: profile_summary,
\* confirmed_skills, ui_preferences, tool_preferences, stated_goals and
\* recurring_frustrations as far as present, and no other field.
C11_FallbackIsProjection ==
  \A p \in Procs :
    (/\ pc[p] = "persist_ltm"
     /\ \/ obs[p].trim = "text"
        \/ obs[p].trim = "json" /\ LtmTokens(obs[p].trimDoc) > 8000)
      => IsProjection(longTermMemory,
                      IF obs[p].trim = "json" THEN obs[p].trimDoc ELSE PreTrimLTM(obs[p]))

\* the list at doc[a][b], empty when the section or the field is missing
ListAt(doc, a, b) ==
  IF a \in Keys(doc) /\ b \in DOMAIN doc.f[a].f THEN doc.f[a].f[b].a ELSE <<>>

Prefix(seq, n) == SubSeq(seq, 1, IF Len(seq) < n THEN Len(seq) ELSE n)

\* C12: when the summarizer call of trimLTM raises an error, the LTM becomes
\* the minimal-safe profile of the pre-trim LTM: its profile_summary (or the
\* default string), at most its first 5 confirmed_skills and at most its first
\* 5 ui_preferences, and nothing else.
C12_ErrorGivesMinimalProfile ==
  \A p \in Procs :
    (pc[p] = "persist_ltm" /\ obs[p].trim = "throw") =>
      LET pre == PreTrimLTM(obs[p])
          now == longTermMemory
      IN /\ Keys(now) = {"profile_summary", "skills_and_knowledge", "preferences_and_habits"}
         /\ now.f["profile_summary"] =
              IF "profile_summary" \in Keys(pre) THEN pre.f["profile_summary"]
              ELSE Str("User profile", 12)
         /\ DOMAIN now.f["skills_and_knowledge"].f = {"confirmed_skills"}
         /\ now.f["skills_and_knowledge"].f["confirmed_skills"].a
              = Prefix(ListAt(pre, "skills_and_knowledge", "confirmed_skills"), 5)
         /\ DOMAIN now.f["preferences_and_habits"].f = {"ui_preferences"}
         /\ now.f["preferences_and_habits"].f["ui_preferences"].a
              = Prefix(ListAt(pre, "preferences_and_habits", "ui_preferences"), 5)

\* the trim call raised on an LTM of six confirmed skills and no profile_summary
C12_Witness ==
  /\ pc[1] = "persist_ltm"
  /\ obs[1].trim = "throw"
  /\ "profile_summary" \notin Keys(PreTrimLTM(obs[1]))
  /\ Len(ListAt(PreTrimLTM(obs[1]), "skills_and_knowledge", "confirmed_skills")) = 6

\* C13: the LTM size check on an LTM whose estimate is at most 8000 is a
\* no-op: trimLTM is not entered, no summarizer call is made, and the LTM is
\* what it was when the check started.
C13_CheckWithinBudgetIsNoOp ==
  \A p \in Procs :
    (/\ pc[p] \in {"trim_ltm", "persist_ltm"}
     /\ LtmTokens(PreTrimLTM(obs[p])) <= 8000)
      => /\ pc[p] = "persist_ltm"
         /\ obs[p].trimCalls = 0
         /\ obs[p].trim = "none"
         /\ longTermMemory = PreTrimLTM(obs[p])

\* the check has run on a merge result of exactly 8000 tokens
C13_Witness ==
  /\ pc[1] = "persist_ltm"
  /\ obs[1].merge = "json"
  /\ LtmTokens(longTermMemory) = 8000
  /\ obs[1].trimCalls = 0

\* the awaits of an ingest that come before updateWorkingMemory()
BeforeWmStep(p) ==
  pc[p] \in {"persist_stm", "persist_state", "merge", "trim_ltm", "persist_ltm",
             "persist_stm2", "persist_state2"}

C15_FailedWmCallKeepsTiers ==
  [][\A p \in Procs :
       (/\ pc[p] = "update_wm"
        /\ pc'[p] # "update_wm"
        /\ obs'[p].wmResp \in {"throw", "text"})
         => /\ workingMemory' = obs[p].wmBefore
            /\ workingMemory' = workingMemory
            /\ shortTermMemory' = shortTermMemory
            /\ longTermMemory' = longTermMemory
            /\ pc'[p] = "done"
    ]_vars

\* an ingest has ended after its WM call returned text that is not JSON, with
\* a WM loaded from disk
C15_Witness ==
  /\ pc[1] = "done"
  /\ obs[1].wmResp = "text"
  /\ workingMemory = WmSmall

\* a board of three arrays with corroborated_hypotheses cut to its first 10
\* entries and untested_hypotheses to its first 5
Truncated(doc) ==
  Obj([k \in Keys(doc) |->
         CASE k = "corroborated_hypotheses" -> Arr(Prefix(doc.f[k].a, 10))
           [] k = "untested_hypotheses" -> Arr(Prefix(doc.f[k].a, 5))
           [] OTHER -> doc.f[k]])

\* the re-derivation response has been assigned and measured
AfterWmCheck(p) == pc[p] \in {"trim_wm", "persist_wm", "persist_state3", "done"}

\* C16: when the re-derived WM is over budget and its local truncation (10
\* corroborated, 5 untested, every established fact) is within budget, the WM
\* becomes the truncated board and trimWM makes no summarizer call.
C16_LocalTruncationSuffices ==
  \A p \in Procs :
    (/\ Ingesting(p) /\ AfterWmCheck(p)
     /\ obs[p].wmResp = "json" /\ ValidWM(obs[p].wmDoc)
     /\ WmTokens(obs[p].wmDoc) > 8000
     /\ WmTokens(Truncated(obs[p].wmDoc)) <= 8000)
      => /\ pc[p] # "trim_wm"
         /\ obs[p].wmTrim = "none"
         /\ workingMemory = Truncated(obs[p].wmDoc)

\* a board of 6 untested and 11 corroborated hypotheses has been cut to 5 and 10
C16_Witness ==
  /\ pc[1] = "persist_wm"
  /\ Len(obs[1].wmDoc.f["untested_hypotheses"].a) = 6
  /\ Len(workingMemory.f["untested_hypotheses"].a) = 5
  /\ Len(workingMemory.f["corroborated_hypotheses"].a) = 10
  /\ workingMemory.f["established_facts"] = obs[1].wmDoc.f["established_facts"]

\* C17: when the local truncation does not suffice, the condensed response of
\* trimWM is accepted only if it has the three arrays, so that the WM is
\* well-formed afterwards; when the response cannot be parsed the WM becomes
\* the locally truncated board.
C17_WmTrimValidates ==
  \A p \in Procs :
    (/\ pc[p] = "persist_wm"
     /\ obs[p].wmTrim # "none"
     /\ ValidWM(obs[p].wmDoc))
      => /\ ValidWM(workingMemory)
         /\ obs[p].wmTrim = "text" => workingMemory = Truncated(obs[p].wmDoc)

\* the estimate of one entry, and of the first n entries one by one
EntryTokens(e) == (EntryLen(e) + 3) \div 4

RECURSIVE Cumulative(_, _)
Cumulative(stm, n) == IF n = 0 THEN 0 ELSE Cumulative(stm, n - 1) + EntryTokens(stm[n])

\* C18: the consolidation is skipped, and the merge summarizer is not called,
\* when every entry of the STM is by itself above the slice budget of 3000:
\* a consolidation that waits for the summarizer has an entry of at most 3000.
C18_SkippedWhenEveryEntryExceedsSlice ==
  \A p \in Procs :
    pc[p] = "merge" =>
      \E i \in 1..Len(obs[p].stmAtSelect) : EntryTokens(obs[p].stmAtSelect[i]) <= 3000

\* C19: the slice is the shortest prefix of the timestamp-sorted STM whose
\* cumulative per-entry estimate reaches 3000, or the whole STM when the total
\* is below 3000: without its last entry the slice is strictly below 3000.
C19_SliceIsShortestPrefix ==
  \A p \in Procs :
    pc[p] = "merge" =>
      LET stm == obs[p].stmAtSelect
          n == Len(loc[p].oldestEntries)
      IN /\ n >= 1 /\ n <= Len(stm)
         /\ loc[p].oldestEntries = SubSeq(stm, 1, n)
         /\ \A i \in 1..(Len(stm) - 1) : stm[i].timestamp <= stm[i + 1].timestamp
         /\ Cumulative(stm, n - 1) < 3000
         /\ Cumulative(stm, n) >= 3000 \/ n = Len(stm)

\* a slice of two entries of about 2000 tokens, out of seven that the sort
\* had to reorder
C19_Witness ==
  /\ pc[1] = "merge"
  /\ Len(loc[1].oldestEntries) = 2
  /\ Len(obs[1].stmAtSelect) = 7
  /\ obs[1].stmAtSelect # obs[1].appended
  /\ Cumulative(obs[1].stmAtSelect, 1) < 3000

\* C20: when an ingest ends, the snapshot file holds the three tiers as they
\* are in memory, whichever of the sub-steps ran or failed (no write failed).
C20_SnapshotEqualsMemory ==
  \A p \in Procs :
    (Ingesting(p) /\ pc[p] = "done") =>
      /\ disk.state.present
      /\ disk.state.stm = shortTermMemory
      /\ disk.state.ltm = longTermMemory
      /\ disk.state.wm = workingMemory

\* an ingest has ended after a merge, an LTM trim and a WM trim
C20_Witness ==
  /\ pc[1] = "done"
  /\ obs[1].merge = "json"
  /\ obs[1].trim = "json"
  /\ obs[1].wmTrim = "json"
  /\ disk.state.wm = workingMemory

\* what a call of initialize() by handler p has put into this.shortTermMemory
LoadedSTM(p) == IF op[p] = "ingest" THEN obs'[p].before ELSE shortTermMemory'

\* C21: loading never fails because a file is absent.  A call of initialize()
\* that finds memory-state.json takes all three tiers from it and reads no
\* per-tier file; a call that does not find it completes with each tier taken
\* from its own file, and a tier whose file is missing has its empty default
\* (no entries, the empty object, the three empty arrays).
C21_LoadDefaultsAndPrecedence ==
  [][\A p \in Procs :
       /\ (pc[p] = "init_state" /\ pc'[p] # "init_state" /\ disk.state.present)
            => /\ initialized'
               /\ pc'[p] \notin {"init_ltm", "init_wm", "init_stm", "init_persist"}
               /\ LoadedSTM(p) = disk.state.stm
               /\ longTermMemory' = disk.state.ltm
               /\ workingMemory' = disk.state.wm
       /\ (pc[p] = "init_state" /\ pc'[p] # "init_state" /\ ~disk.state.present)
            => pc'[p] = "init_ltm"
       /\ (pc[p] = "init_persist" /\ pc'[p] # "init_persist")
            => /\ initialized'
               /\ LoadedSTM(p) = (IF disk.stm.present THEN disk.stm.stm ELSE <<>>)
               /\ longTermMemory' = (IF disk.ltm.present THEN disk.ltm.doc ELSE EmptyLTM)
               /\ workingMemory' = (IF disk.wm.present THEN disk.wm.doc ELSE EmptyWM)]_vars

\* initialize() has completed on a directory without memory-state.json and
\* without wm.json
C21_Witness ==
  /\ initialized
  /\ ingests = 0
  /\ \A p \in Procs : pc[p] = "idle"
  /\ ~disk.wm.present
  /\ disk.stm.present
  /\ shortTermMemory = disk.stm.stm
  /\ longTermMemory = disk.ltm.doc
  /\ workingMemory = EmptyWM

\* the end of the write at which handler p is suspended
WriteEnds(p, ok) ==
  \/ InitPersist(p, ok, {1})
  \/ PersistSTM(p, ok)
  \/ PersistState(p, ok)
  \/ PersistLTM(p, ok)
  \/ PersistSTM2(p, ok)
  \/ PersistState2(p, ok)
  \/ PersistWM(p, ok)
  \/ PersistState3(p, ok)

\* everything but the files and the count of failed writes
Memory ==
  <<shortTermMemory, longTermMemory, workingMemory, initialized, clock, pc, op, loc, obs,
    ingests>>

\* C22: a persistence write that fails during an ingest changes no tier,
\* rolls nothing back and does not abort the ingest: the files stay as they
\* were, and the manager and the handler go on to exactly the state they
\* would have reached had the write succeeded.
C22_FailedWriteIsIgnored ==
  [][\A p \in Procs :
       (failures' # failures /\ pc'[p] # pc[p])
         => /\ disk' = disk
            /\ longTermMemory' = longTermMemory
            /\ workingMemory' = workingMemory
            /\ pc[p] # "persist_ltm" => shortTermMemory' = shortTermMemory
            /\ \E m \in {Memory'} : ENABLED (WriteEnds(p, TRUE) /\ Memory' = m)]_vars

\* an ingest has ended after a consolidation and a re-derivation although
\* its last snapshot write failed
C22_Witness ==
  /\ Ingesting(1)
  /\ pc[1] = "done"
  /\ failures = 1
  /\ obs[1].merge = "json"
  /\ obs[1].wmResp = "json"
  /\ workingMemory = obs[1].wmDoc
  /\ disk.state.wm # workingMemory

Querying(p) == op[p] = "query"

\* C23: conversationalMemoryQuery never changes a tier, whatever the query
\* and the outcome of its summarizer call, also when it is called before
\* initialize() has completed or while an ingest is in progress: once the
\* manager is initialized, no step of a query changes the STM, the LTM or the
\* working memory.
C23_QueryNeverMutates ==
  [][\A p \in Procs :
       (Querying(p) /\ pc'[p] # pc[p] /\ initialized)
         => UNCHANGED <<shortTermMemory, longTermMemory, workingMemory>>]_vars

\* handler p has called getMemoryState() and holds what it returned
Got(p) == op[p] = "getState" /\ pc[p] = "done"

\* C24: getMemoryState() is read-only and repeatable: a call changes no tier
\* and returns the current STM, LTM and working memory, so that two calls
\* with no step of an ingest between them return the same values.
C24_GetStateReadOnly ==
  [][\A p \in Procs :
       (~Got(p) /\ Got(p)')
         => /\ UNCHANGED <<shortTermMemory, longTermMemory, workingMemory, initialized, disk>>
            /\ loc'[p].memoryState =
                 [stm |-> shortTermMemory, ltm |-> longTermMemory, wm |-> workingMemory]
            /\ \A q \in Procs \ {p} :
                 (Got(q) /\ obs[q].quiet /\ Quiet /\ obs[q].ingestsAt = ingests)
                   => loc'[p].memoryState = loc[q].memoryState]_vars

\* two calls after an ingest, with nothing in progress, have returned the
\* same non-empty STM
C24_Witness ==
  /\ \A p \in Procs : Got(p) /\ obs[p].quiet /\ obs[p].ingestsAt = 1
  /\ loc[1].memoryState = loc[2].memoryState
  /\ loc[1].memoryState.stm = shortTermMemory
  /\ Len(shortTermMemory) > 3

\* C25: on an initialized manager processNewAnalysis always runs to its
\* return, whatever the summarizer does in the merge, LTM-trim, WM and
\* WM-trim calls (a valid document, unparseable text, a thrown error) and
\* whichever writes fail: every call that has started reaches its return.
C25_IngestAlwaysCompletes ==
  (\E p \in Procs : Ingesting(p) /\ initialized /\ pc[p] # "done")
    ~> (\A p \in Procs : Ingesting(p) => pc[p] = "done")

\* an ingest has returned after a thrown merge call, an unparseable WM
\* response and failed writes
C25_Witness ==
  /\ Ingesting(1)
  /\ pc[1] = "done"
  /\ obs[1].merge = "throw"
  /\ obs[1].wmResp = "text"
  /\ failures = MaxWriteFailures

Estimated(p) == op[p] = "estimate" /\ pc[p] = "done"

\* C26: the token estimator is deterministic, makes no summarizer call and
\* returns an integer that is at least 0; the estimate of the class-based
\* manager is the ceiling of length / 4, so it never decreases when the text
\* gets longer and is 0 only for the empty text.
C26_EstimatorIsCeilingOfQuarter ==
  \A p \in Procs :
    Estimated(p) =>
      LET n == obs[p].size
          t == obs[p].tokens IN
      /\ t \in Nat
      /\ obs[p].mergeCalls + obs[p].trimCalls + obs[p].wmCalls = 0
      /\ obs[p].estimator = "class" => /\ 4 * t >= n
                                       /\ 4 * (t - 1) < n
                                       /\ (t = 0) <=> (n = 0)
      /\ \A q \in Procs :
           (Estimated(q) /\ obs[q].estimator = obs[p].estimator)
             => /\ obs[q].size = n => obs[q].tokens = t
                /\ (obs[p].estimator = "class" /\ obs[q].size <= n) => obs[q].tokens <= t

\* texts of 1 and of 5 characters have been estimated at 1 and at 2 tokens
C26_Witness ==
  /\ Estimated(1) /\ obs[1].estimator = "class" /\ obs[1].size = 1 /\ obs[1].tokens = 1
  /\ Estimated(2) /\ obs[2].estimator = "class" /\ obs[2].size = 5 /\ obs[2].tokens = 2

\* C27: when ingests interleave and every summarizer response is valid, no
\* observation is lost: every entry that a consolidation removes from the
\* STM is one of the entries of the slice that this consolidation passed to
\* the summarizer.
C27_RemovedEntriesWereSummarised ==
  [][\A p \in Procs :
       (pc[p] = "persist_ltm" /\ pc'[p] = "persist_stm2" /\ obs[p].merge = "json")
         => \A i \in 1..(Len(shortTermMemory) - Len(shortTermMemory')) :
              \E j \in 1..Len(loc[p].oldestEntries) :
                loc[p].oldestEntries[j] = shortTermMemory[i]]_vars

\* handler p is suspended in a read, or in the snapshot write, of initialize()
Initializing(p) == pc[p] \in {"init_state", "init_ltm", "init_wm", "init_stm", "init_persist"}

\* C28: the persisted state is loaded at most once and only before any
\* in-memory mutation: once an ingest has appended to the STM, no step of a
\* call of initialize() (from setupWatcher, from another processNewAnalysis or
\* from conversationalMemoryQuery) replaces a tier by what is on disk.
C28_NoLoadAfterAppend ==
  [][\A p \in Procs :
       (/\ Initializing(p)
        /\ pc'[p] # pc[p]
        /\ \E q \in Procs : Ingesting(q) /\ obs[q].appended # <<>>)
         => /\ longTermMemory' = longTermMemory
            /\ workingMemory' = workingMemory
            /\ \/ shortTermMemory' = shortTermMemory
               \/ Ingesting(p) /\ obs'[p].before = shortTermMemory]_vars

\* the step in which handler p pushes the entries of its analysis
Appends(p) == pc[p] # "persist_stm" /\ pc'[p] = "persist_stm"

\* C29: entries leave the STM, or change place in it, only in a
\* consolidation (its sort and its removal of the slice).  The append step
\* only adds entries at the end, and the LTM trim, the WM re-derivation, the
\* WM trim, getMemoryState and the query leave the STM as it is.
C29_StmChangesOnlyInConsolidation ==
  [][\A p \in Procs :
       /\ (Appends(p) /\ initialized)
            => /\ Len(shortTermMemory') > Len(shortTermMemory)
               /\ SubSeq(shortTermMemory', 1, Len(shortTermMemory)) = shortTermMemory
       /\ (pc'[p] # pc[p] /\ ~Appends(p))
            => \/ shortTermMemory' = shortTermMemory
               \/ pc[p] = "persist_state" /\ pc'[p] = "merge"
               \/ pc[p] = "persist_ltm"
               \/ Initializing(p) /\ ~initialized]_vars

\* an ingest has gone through consolidation, LTM trim, WM re-derivation and
\* WM trim, and getMemoryState was called meanwhile
C29_Witness ==
  /\ Ingesting(1)
  /\ pc[1] = "done"
  /\ obs[1].merge = "json"
  /\ obs[1].trim = "json"
  /\ obs[1].wmTrim = "json"
  /\ Got(2)
  /\ Len(shortTermMemory) < Len(obs[1].appended)
  /\ Len(obs[1].before) > 0

\* C30: the LTM changes only in the merge step of a consolidation and in the
\* LTM trim: an ingest whose STM stays within budget, the WM re-derivation
\* and the WM trim leave it equal to its previous value.
C30_LtmChangesOnlyInMergeAndTrim ==
  [][\A p \in Procs :
       /\ pc[p] \in {"merge", "trim_ltm"} => checkSTMSize(obs[p].appended)
       /\ pc'[p] # pc[p]
            => \/ longTermMemory' = longTermMemory
               \/ pc[p] \in {"merge", "trim_ltm"}
               \/ Initializing(p) /\ ~initialized]_vars

\* an ingest within the STM budget has ended after a WM re-derivation and a
\* WM trim that fell back, with the LTM it was loaded with
C30_Witness ==
  /\ Ingesting(1)
  /\ pc[1] = "done"
  /\ obs[1].mergeCalls = 0
  /\ obs[1].wmResp = "json"
  /\ obs[1].wmTrim = "text"
  /\ longTermMemory = LtmSmall

\* the LTM after checkLTMSize() of a consolidation: the measured LTM when it
\* is within the limit, and what trimLTM left otherwise
PostTrimLTM(o) ==
  IF checkLTMSize(PreTrimLTM(o))
  THEN TrimmedLTM(PreTrimLTM(o), [kind |-> o.trim, doc |-> o.trimDoc])
  ELSE PreTrimLTM(o)

\* C31: in a consolidation the size check and any LTM trim come before
\* persistLTM() and before the removal of the slice: while the merge result is
\* checked, trimmed and written the STM still holds the slice, the document
\* that the ltm.json write puts on disk is the post-trim LTM, the slice is
\* removed only when that write has ended, and the snapshot written afterwards
\* carries the post-trim LTM and the spliced STM.
C31_PersistedLtmIsPostTrim ==
  [][\A p \in Procs :
       /\ (pc[p] \in {"trim_ltm", "persist_ltm"} /\ obs[p].merge = "json")
            => shortTermMemory = obs[p].stmAtSelect
       /\ (pc[p] = "persist_ltm" /\ pc'[p] # "persist_ltm")
            => /\ longTermMemory = PostTrimLTM(obs[p])
               /\ disk'.ltm = DocFile(PostTrimLTM(obs[p]))
               /\ obs[p].merge = "json"
                    => shortTermMemory' =
                         SubSeq(obs[p].stmAtSelect, Len(loc[p].oldestEntries) + 1,
                                Len(obs[p].stmAtSelect))
       /\ (pc[p] = "persist_state2" /\ pc'[p] # "persist_state2")
            => disk'.state = Snapshot(shortTermMemory, PostTrimLTM(obs[p]), workingMemory)
    ]_vars

\* a consolidation whose merge result was over the limit has written the
\* trimmed LTM, which is not the merge result, to ltm.json and to the snapshot
C31_Witness ==
  /\ pc[1] \in {"update_wm", "done"}
  /\ obs[1].merge = "json"
  /\ obs[1].trim # "none"
  /\ PostTrimLTM(obs[1]) # obs[1].mergeDoc
  /\ disk.ltm = DocFile(PostTrimLTM(obs[1]))
  /\ disk.state.present
  /\ disk.state.ltm = PostTrimLTM(obs[1])
  /\ Len(disk.state.stm) < Len(obs[1].stmAtSelect)

\* the entries are in non-decreasing timestamp order
InOrder(stm) == \A i \in 1..(Len(stm) - 1) : stm[i].timestamp <= stm[i + 1].timestamp

\* C32: the STM is in non-decreasing timestamp order after every step (it is
\* empty at construction and the files it is loaded from are in order); the
\* entries that one ingest appends all carry the time of the append, which is
\* not before any timestamp already in the STM; and the sort that
\* checkSTMSize's consolidation performs leaves the STM as it was.
C32_StmStaysInTimestampOrder ==
  [][/\ InOrder(shortTermMemory')
     /\ \A p \in Procs :
          /\ (pc[p] # "persist_stm" /\ pc'[p] = "persist_stm")
               => LET old == obs'[p].before
                      new == obs'[p].appended
                  IN /\ shortTermMemory' = new
                     /\ SubSeq(new, 1, Len(old)) = old
                     /\ \A i \in 1..Len(new) :
                          /\ new[i].timestamp <= clock'
                          /\ i > Len(old) => new[i].timestamp = clock'
          /\ (pc[p] = "persist_state" /\ pc'[p] # "persist_state")
               => shortTermMemory' = shortTermMemory
          /\ (pc[p] = "persist_state" /\ pc'[p] = "merge")
               => obs'[p].stmAtSelect = shortTermMemory
    ]_vars

\* a consolidation has sorted an STM that holds entries of two ingest times,
\* several of them with the same timestamp
C32_Witness ==
  /\ pc[1] = "merge"
  /\ obs[1].stmAtSelect = shortTermMemory
  /\ Len(obs[1].appended) >= Len(obs[1].before) + 2
  /\ Len(obs[1].before) >= 2
  /\ obs[1].before[1].timestamp < obs[1].appended[Len(obs[1].appended)].timestamp

\* the entries of the STM that were pushed after call e split it
AddedSince(e) ==
  {x \in {eventStm[i] : i \in 1..Len(eventStm)} : x.timestamp > e}

\* C33: when a trim of the function-based manager completes (its ltm.json
\* write ends and stm is assigned), every entry that was pushed while its
\* summarization was in flight is still in the STM; and no STM entry is in
\* two of the summaries appended to the LTM.
C33_TrimKeepsNewEventsAndSummarisesOnce ==
  [][/\ \A e \in 1..MaxEvents :
          (background[e].trim = "persist" /\ background'[e].trim = "done")
            => \A x \in AddedSince(e) : \E i \in 1..Len(eventStm') : eventStm'[i] = x
     /\ \A a, b \in 1..Len(ltmContent') :
          a # b => \A i \in 1..Len(ltmContent'[a]) : \A j \in 1..Len(ltmContent'[b]) :
                     ltmContent'[a][i] # ltmContent'[b][j]
    ]_vars

\* handler h holds file f between its processingFiles.add and its finally
Holds(h, f) == handlers[h].file = f

\* C34: no recording is held by two of the watcher handlers and scans at a
\* time, so none is analysed by two at once; and no handler calls
\* processNewAnalysis for a recording that has been ingested and is in
\* processedVideos.
C34_OneHandlerPerFileAndOneIngest ==
  [][/\ \A f \in 1..NumFiles : \A h, g \in Procs :
          (Holds(h, f)' /\ Holds(g, f)') => h = g
     /\ \A f \in 1..NumFiles :
          (Cardinality({h \in Procs : Holds(h, f)}) = 1) = (f \in processingFiles)
     /\ \A f \in 1..NumFiles :
          ingested'[f] # ingested[f] => ~(ingested[f] >= 1 /\ f \in processedVideos)
    ]_vars

\* a watcher handler has ingested the first recording and is generating its
\* thumbnail, while a scan, which passed over the first recording, is
\* analysing the second
C34_Witness ==
  /\ handlers[1].kind = "watcher" /\ handlers[1].file = 1 /\ handlers[1].pc = "thumbnail"
  /\ ingested[1] = 1 /\ 1 \in processedVideos /\ 1 \in processingFiles
  /\ handlers[2].kind = "scan" /\ handlers[2].file = 2 /\ handlers[2].pc = "poll"
  /\ handlers[2].videoFiles = <<>>

\* C35: the wait of analyzeVideo for the uploaded file ends, so analyzeVideo
\* returns a result (the handler goes on to saveToDataset) and every file in
\* processingFiles is eventually taken out of it, also when no status check
\* ever reports ACTIVE.
C35_PollingEndsAndFileIsReleased ==
  /\ \A h \in Procs : (handlers[h].pc \in {"poll", "wait"}) ~> (handlers[h].pc = "save")
  /\ \A f \in 1..NumFiles : (f \in processingFiles) ~> (f \notin processingFiles)

====
